---- MODULE Spec2Model ----
(***************************************************************************)
(* Verification model of the LOTUSim UI front end: the spawn dialog and    *)
(* its parameter serializer (AddVesselMenu / generateLotusParamXML), and   *)
(* the telemetry client (WebSocketClient) with the home dashboard that     *)
(* owns it.                                                                *)
(*                                                                         *)
(* Text is modelled as a sequence of symbols.  A symbol is one character   *)
(* ("a", " ", "\n", "<", ...), except that an identifier written in a      *)
(* template literal of the source (a tag name such as "render_interface")  *)
(* is kept whole as one symbol: no regular expression of the code looks    *)
(* inside an identifier.  Values entered by the operator are always        *)
(* sequences of single characters.                                         *)
(***************************************************************************)
EXTENDS Integers, Sequences, FiniteSets, TLC

(***************************************************************************)
(* Bounds of the model.                                                    *)
(***************************************************************************)
MaxStrLen == 5

(***************************************************************************)
(* Characters.                                                             *)
(***************************************************************************)
NL == "\n"
CR == "\r"
TAB == "\t"
FF == "\f"
SPC == " "

\* The members of the regular-expression class \s (and of String.trim)
\* that the model's alphabet contains.
WhiteSpace == {SPC, NL, CR, TAB, FF}

\* n spaces of template indentation.
Sp(n) == [i \in 1..n |-> SPC]

\* The flattening of a sequence of texts (Array.join('')).
RECURSIVE Concat(_)
Concat(ss) == IF ss = <<>> THEN <<>> ELSE Head(ss) \o Concat(Tail(ss))

\* Array.join(sep).
RECURSIVE Join(_, _)
Join(ss, sep) ==
    IF ss = <<>> THEN <<>>
    ELSE IF Len(ss) = 1 THEN ss[1]
    ELSE ss[1] \o sep \o Join(Tail(ss), sep)

\* All texts over alphabet A of length at most n.
TextsUpTo(A, n) == UNION {[1..k -> A] : k \in 0..n}

(***************************************************************************)
(* The final whitespace normalization of generateLotusParamXML.            *)
(***************************************************************************)
\* The marker of a deleted position; no symbol of a text is the empty string.
Gone == ""

Compact(marked) == SelectSeq(marked, LAMBDA c : c # Gone)

\* .replace(/[\n\r\t]/g, '')
RemoveLineBreaks(s) == SelectSeq(s, LAMBDA c : c \notin {NL, CR, TAB})

IsWs(s, i) == i >= 1 /\ i <= Len(s) /\ s[i] \in WhiteSpace

\* A variant that rewrites whitespace two characters at a time, /\s{2}/g.
RECURSIVE CollapsePairsFrom(_, _)
CollapsePairsFrom(s, i) ==
    IF i > Len(s) THEN <<>>
    ELSE IF IsWs(s, i) /\ IsWs(s, i + 1)
         THEN <<SPC>> \o CollapsePairsFrom(s, i + 2)
         ELSE <<s[i]>> \o CollapsePairsFrom(s, i + 1)

CollapseSpacesPairwise(s) == CollapsePairsFrom(s, 1)

\* .replace(/\s{2,}/g, ' '): every maximal run of two or more whitespace
\* characters becomes one space; a lone whitespace character is kept as is.
CollapseSpaces(s) ==
    Compact([i \in 1..Len(s) |->
        IF IsWs(s, i) /\ (IsWs(s, i - 1) \/ IsWs(s, i + 1))
        THEN (IF IsWs(s, i - 1) THEN Gone ELSE SPC)
        ELSE s[i]])

\* The nearest symbol left (right) of position i that is not whitespace,
\* Gone when there is none.
RECURSIVE LeftNonWs(_, _)
LeftNonWs(s, i) ==
    IF i < 1 THEN Gone
    ELSE IF s[i] \notin WhiteSpace THEN s[i] ELSE LeftNonWs(s, i - 1)

RECURSIVE RightNonWs(_, _)
RightNonWs(s, i) ==
    IF i > Len(s) THEN Gone
    ELSE IF s[i] \notin WhiteSpace THEN s[i] ELSE RightNonWs(s, i + 1)

\* .replace(/>\s+</g, '><'): a whitespace run standing between a '>' and a
\* '<' is removed.  Two matches cannot overlap (a match holds one '>' , its
\* first character), so every such run is matched.
CloseTagGaps(s) ==
    Compact([i \in 1..Len(s) |->
        IF IsWs(s, i) /\ LeftNonWs(s, i) = ">" /\ RightNonWs(s, i) = "<"
        THEN Gone ELSE s[i]])

\* String.prototype.trim
trim(s) ==
    LET keep == {i \in 1..Len(s) : s[i] \notin WhiteSpace}
    IN IF keep = {} THEN <<>>
       ELSE LET lo == CHOOSE i \in keep : \A j \in keep : i <= j
                hi == CHOOSE i \in keep : \A j \in keep : i >= j
            IN SubSeq(s, lo, hi)

Normalize(s) == trim(CloseTagGaps(CollapseSpaces(RemoveLineBreaks(s))))

(***************************************************************************)
(* escapeXml                                                               *)
(***************************************************************************)
\* str.replace(/c/g, r) for a one-character pattern c.
ReplaceAll(s, c, r) ==
    Concat([i \in 1..Len(s) |-> IF s[i] = c THEN r ELSE <<s[i]>>])

AMP == <<"&", "a", "m", "p", ";">>
LT == <<"&", "l", "t", ";">>
GT == <<"&", "g", "t", ";">>
QUOT == <<"&", "q", "u", "o", "t", ";">>
APOS == <<"&", "a", "p", "o", "s", ";">>

\* A variant that escapes the ampersand last.
escapeXmlAmpLast(str) ==
    ReplaceAll(ReplaceAll(ReplaceAll(ReplaceAll(ReplaceAll(str,
        "<", LT), ">", GT), "\"", QUOT), "'", APOS), "&", AMP)

escapeXml(str) ==
    ReplaceAll(ReplaceAll(ReplaceAll(ReplaceAll(ReplaceAll(str,
        "&", AMP), "<", LT), ">", GT), "\"", QUOT), "'", APOS)

(***************************************************************************)
(* Numbers.  A JavaScript number of the dialog is modelled in thousandths  *)
(* (500 is 0.5).                                                           *)
(***************************************************************************)
Digit(d) == <<"0", "1", "2", "3", "4", "5", "6", "7", "8", "9">>[d + 1]

DigitValue(c) == CHOOSE d \in 0..9 : Digit(d) = c

Digits == {Digit(d) : d \in 0..9}

\* The decimal digits of a natural number.
RECURSIVE NatText(_)
NatText(n) == IF n < 10 THEN <<Digit(n)>> ELSE NatText(n \div 10) \o <<Digit(n % 10)>>

\* The fraction digits of m thousandths (0 < m < 1000), trailing zeros dropped.
FracText(m) ==
    IF m % 100 = 0 THEN <<Digit(m \div 100)>>
    ELSE IF m % 10 = 0 THEN <<Digit(m \div 100), Digit((m \div 10) % 10)>>
    ELSE <<Digit(m \div 100), Digit((m \div 10) % 10), Digit(m % 10)>>

\* Number-to-string conversion of a template literal, `${x}`.
NumText(x) ==
    LET a == IF x < 0 THEN 0 - x ELSE x
        body == NatText(a \div 1000) \o
                (IF a % 1000 = 0 THEN <<>> ELSE <<".">> \o FracText(a % 1000))
    IN (IF x < 0 THEN <<"-">> ELSE <<>>) \o body

\* Boolean-to-string conversion of a template literal.
BoolText(b) == IF b THEN <<"t", "r", "u", "e">> ELSE <<"f", "a", "l", "s", "e">>

\* The length of the longest prefix of s, from position i, made of digits.
RECURSIVE DigitRun(_, _)
DigitRun(s, i) ==
    IF i <= Len(s) /\ s[i] \in Digits THEN 1 + DigitRun(s, i + 1) ELSE 0

\* The value of the digits s[i..i+n-1].
RECURSIVE DigitsValue(_, _, _)
DigitsValue(s, i, n) ==
    IF n = 0 THEN 0 ELSE DigitsValue(s, i, n - 1) * 10 + DigitValue(s[i + n - 1])

\* s holds the characters of word from position i on.
StartsWithAt(s, i, word) ==
    /\ i + Len(word) - 1 <= Len(s)
    /\ \A k \in 1..Len(word) : s[i + k - 1] = word[k]

InfinityWord == <<"I", "n", "f", "i", "n", "i", "t", "y">>

\* parseFloat: leading whitespace is skipped, then an optional sign and
\* either the word Infinity (inf = TRUE, value the sign) or the longest
\* prefix digits [. digits], which is converted to value thousandths; the
\* result is NaN (nan = TRUE) when there is neither.  Fraction digits beyond
\* the third are beyond the model's resolution.
parseFloat(input) ==
    LET nonWs == {i \in 1..Len(input) : input[i] \notin WhiteSpace}
        start == IF nonWs = {} THEN Len(input) + 1
                 ELSE CHOOSE i \in nonWs : \A j \in nonWs : i <= j
        signed == start <= Len(input) /\ input[start] \in {"-", "+"}
        neg == signed /\ input[start] = "-"
        p == IF signed THEN start + 1 ELSE start
        nInt == DigitRun(input, p)
        dot == p + nInt <= Len(input) /\ input[p + nInt] = "."
        nFrac == IF dot THEN DigitRun(input, p + nInt + 1) ELSE 0
        k == IF nFrac > 3 THEN 3 ELSE nFrac
        fracVal == DigitsValue(input, p + nInt + 1, k) *
                   (IF k = 0 THEN 0 ELSE IF k = 1 THEN 100 ELSE IF k = 2 THEN 10 ELSE 1)
        mag == DigitsValue(input, p, nInt) * 1000 + fracVal
    IN IF StartsWithAt(input, p, InfinityWord)
       THEN [nan |-> FALSE, inf |-> TRUE, value |-> IF neg THEN 0 - 1 ELSE 1]
       ELSE IF nInt + nFrac = 0 THEN [nan |-> TRUE, inf |-> FALSE, value |-> 0]
       ELSE [nan |-> FALSE, inf |-> FALSE, value |-> IF neg THEN 0 - mag ELSE mag]

\* `parseFloat(e.target.value) || 0`: NaN and 0 are falsy.  The value of an
\* <input type="number"> is never the word Infinity.
parseFloatOrZero(input) ==
    LET v == parseFloat(input) IN IF v.nan \/ v.value = 0 THEN 0 ELSE v.value

\* The JavaScript values a field of the position holds: a finite number of n
\* thousandths, plus or minus Infinity (n the sign), or a string s.
Num(n) == [type |-> "number", n |-> n, s |-> <<>>]
Infinity(sign) == [type |-> "infinity", n |-> sign, s |-> <<>>]
Str(s) == [type |-> "string", n |-> 0, s |-> s]
Null == [type |-> "null", n |-> 0, s |-> <<>>]

\* JSON.stringify of a property value: a number that is not finite is
\* written as null, a finite number and a string as themselves.
JsonValue(v) == IF v.type = "infinity" THEN Null ELSE v

(***************************************************************************)
(* String.split(",") and the trimming of each piece.                       *)
(***************************************************************************)
\* The pieces of s from position i on, where cur is the piece being read.
RECURSIVE SplitFrom(_, _, _, _)
SplitFrom(s, sep, i, cur) ==
    IF i > Len(s) THEN <<cur>>
    ELSE IF s[i] = sep THEN <<cur>> \o SplitFrom(s, sep, i + 1, <<>>)
    ELSE SplitFrom(s, sep, i + 1, Append(cur, s[i]))

split(s, sep) == SplitFrom(s, sep, 1, <<>>)

\* e.target.value.split(",").map((t) => t.trim())
ParseThrusters(input) ==
    LET parts == split(input, ",") IN [i \in 1..Len(parts) |-> trim(parts[i])]

(***************************************************************************)
(* generateLotusParamXML.  c is the dialog state the closure reads:        *)
(* plugins, publishRender, rendererType, physicsModes, physicsConfig,      *)
(* initState and waypointFollower.                                         *)
(***************************************************************************)
Open(name) == <<"<", name, ">">>
Close(name) == <<"<", "/", name, ">">>

physicsModeKeys == <<"aerial", "surface", "underwater">>

\* A variant of the spread that removes the key and adds it again.
SpreadKeysMoved(keys, key) == SelectSeq(keys, LAMBDA k : k # key) \o <<key>>

\* The keys of `{ ...prev, [key]: value }`, given the keys of prev: a key
\* that prev has keeps its place, a new one comes last.
SpreadKeys(keys, key) ==
    IF \E i \in 1..Len(keys) : keys[i] = key THEN keys ELSE Append(keys, key)

\* Object.entries(physicsModes): the keys of the object in insertion order.
PhysicsModeEntries(keys) == keys

\* A variant that emits the section whenever a renderer type was entered.
renderInterfaceByContent(c) ==
    IF c.rendererType # <<>>
    THEN <<NL>> \o Sp(6) \o Open("render_interface")
         \o <<NL>> \o Sp(8) \o Open("publish_render") \o BoolText(c.publishRender)
         \o Close("publish_render")
         \o <<NL>> \o Sp(8) \o Open("renderer_type_name") \o escapeXml(c.rendererType)
         \o Close("renderer_type_name")
         \o <<NL>> \o Sp(6) \o Close("render_interface")
    ELSE <<>>

renderInterface(c) ==
    IF c.plugins["rendering engine"]
    THEN <<NL>> \o Sp(6) \o Open("render_interface")
         \o <<NL>> \o Sp(8) \o Open("publish_render") \o BoolText(c.publishRender)
         \o Close("publish_render")
         \o <<NL>> \o Sp(8) \o Open("renderer_type_name") \o escapeXml(c.rendererType)
         \o Close("renderer_type_name")
         \o <<NL>> \o Sp(6) \o Close("render_interface")
    ELSE <<>>

\* A variant that numbers the thruster elements from 0.
ThrusterLineFromZero(thruster, idx) ==
    Sp(8) \o <<"<", "thrusters">> \o NatText(idx - 1) \o <<">">> \o escapeXml(thruster)
    \o <<"<", "/", "thrusters">> \o NatText(idx - 1) \o <<">">>

\* The line of one thruster; idx is the 1-based position (idx + 1 of the
\* 0-based map index of the source).
ThrusterLine(thruster, idx) ==
    Sp(8) \o <<"<", "thrusters">> \o NatText(idx) \o <<">">> \o escapeXml(thruster)
    \o <<"<", "/", "thrusters">> \o NatText(idx) \o <<">">>

ThrustersXml(config) ==
    Join([i \in 1..Len(config.thrusters) |-> ThrusterLine(config.thrusters[i], i)], <<NL>>)

PhysicsPart(c, mode) ==
    LET config == c.physicsConfig[mode]
    IN <<NL>> \o Sp(8) \o Open(mode)
       \o <<NL>> \o Sp(10) \o Open("ConnectionType") \o escapeXml(config.connectionType)
       \o Close("ConnectionType") \o Sp(24)
       \o <<NL>> \o Sp(10) \o Open("uri") \o escapeXml(config.uri) \o Close("uri")
       \o <<NL>> \o Sp(10) \o Open("thrusters")
       \o <<NL>> \o Sp(4) \o ThrustersXml(config)
       \o <<NL>> \o Sp(10) \o Close("thrusters")
       \o <<NL>> \o Sp(8) \o Close(mode)

physicsParts(c) ==
    LET enabled == SelectSeq(PhysicsModeEntries(c.physicsModesKeys),
                             LAMBDA mode : c.physicsModes[mode])
    IN Concat([i \in 1..Len(enabled) |-> PhysicsPart(c, enabled[i])])

physicsEngineInterface(c) ==
    IF c.plugins["physics engine"]
    THEN <<NL>> \o Sp(6) \o Open("physics_engine_interface") \o physicsParts(c)
         \o <<NL>> \o Sp(8) \o Open("init_state") \o escapeXml(c.initState)
         \o Close("init_state")
         \o <<NL>> \o Sp(6) \o Close("physics_engine_interface")
    ELSE <<>>

commonLimits(wf) ==
    <<NL>> \o Sp(6) \o Open("loop") \o BoolText(wf.loop) \o Close("loop")
    \o <<NL>> \o Sp(6) \o Open("linear_acceleration_limit") \o NumText(wf.linearAccLimit)
    \o Close("linear_acceleration_limit")
    \o <<NL>> \o Sp(6) \o Open("angular_acceleration_limit") \o NumText(wf.angularAccLimit)
    \o Close("angular_acceleration_limit")
    \o <<NL>> \o Sp(6) \o Open("angular_velocity_limit") \o NumText(wf.angularVelLimit)
    \o Close("angular_velocity_limit")
    \o <<NL>> \o Sp(4)

waypointsXml(wf) ==
    Concat([i \in 1..Len(wf.waypoints) |->
        Open("waypoint") \o NumText(wf.waypoints[i].lat) \o <<SPC>>
        \o NumText(wf.waypoints[i].lng) \o Close("waypoint")])

WaypointsFollower(wf) ==
    <<NL>> \o Sp(8) \o Open("follower") \o <<NL>> \o Sp(10) \o commonLimits(wf)
    \o <<NL>> \o Sp(10) \o Open("waypoints") \o <<NL>> \o Sp(12) \o waypointsXml(wf)
    \o <<NL>> \o Sp(10) \o Close("waypoints") \o <<NL>> \o Sp(8) \o Close("follower")

LineFollower(wf) ==
    <<NL>> \o Sp(8) \o Open("follower") \o <<NL>> \o Sp(10) \o commonLimits(wf)
    \o <<NL>> \o Sp(10) \o Open("line")
    \o <<NL>> \o Sp(12) \o Open("direction") \o NumText(wf.line.direction)
    \o Close("direction")
    \o <<NL>> \o Sp(12) \o Open("length") \o NumText(wf.line.length) \o Close("length")
    \o <<NL>> \o Sp(10) \o Close("line") \o <<NL>> \o Sp(8) \o Close("follower")

CircleFollower(wf) ==
    <<NL>> \o Sp(8) \o Open("follower") \o <<NL>> \o Sp(10) \o commonLimits(wf)
    \o <<NL>> \o Sp(10) \o Open("circle")
    \o <<NL>> \o Sp(12) \o Open("radius") \o NumText(wf.circle.radius) \o Close("radius")
    \o <<NL>> \o Sp(10) \o Close("circle") \o <<NL>> \o Sp(8) \o Close("follower")

\* A variant whose waypoints test does not look at the mode.
followersAnyMode(wf) ==
    (IF Len(wf.waypoints) > 0 THEN <<WaypointsFollower(wf)>> ELSE <<>>)
    \o (IF wf.mode = "line" THEN <<LineFollower(wf)>> ELSE <<>>)
    \o (IF wf.mode = "circle" THEN <<CircleFollower(wf)>> ELSE <<>>)

\* The followers array after the three independent mode tests.
followers(wf) ==
    (IF wf.mode = "waypoints" /\ Len(wf.waypoints) > 0
     THEN <<WaypointsFollower(wf)>> ELSE <<>>)
    \o (IF wf.mode = "line" THEN <<LineFollower(wf)>> ELSE <<>>)
    \o (IF wf.mode = "circle" THEN <<CircleFollower(wf)>> ELSE <<>>)

\* A variant that emits the section whenever a mode is selected.
waypointFollowerInterfaceByMode(c) ==
    IF c.waypointFollower.mode # ""
    THEN <<NL>> \o Sp(6) \o Open("waypoint_follower")
         \o <<NL>> \o Sp(8) \o Concat(followers(c.waypointFollower))
         \o <<NL>> \o Sp(6) \o Close("waypoint_follower")
    ELSE <<>>

waypointFollowerInterface(c) ==
    IF c.waypointFollower.enabled
    THEN <<NL>> \o Sp(6) \o Open("waypoint_follower")
         \o <<NL>> \o Sp(8) \o Concat(followers(c.waypointFollower))
         \o <<NL>> \o Sp(6) \o Close("waypoint_follower")
    ELSE <<>>

\* The document before the whitespace pass.
AssembleXML(c) ==
    Open("lotus_param") \o renderInterface(c) \o physicsEngineInterface(c)
    \o waypointFollowerInterface(c) \o Close("lotus_param")

GenerateXML(c) == Normalize(AssembleXML(c))

(***************************************************************************)
(* State.                                                                  *)
(***************************************************************************)
VARIABLES
    str,        \* a text handed to the normalization pass
    norm,       \* the result of the pass on str
    norm2,      \* the result of the pass on norm
    npc,        \* "in", "once", "twice": how often the pass was applied
    \* AddVesselMenu
    isAddVesselMenuOpen,    \* the dialog is mounted (Map.isAddVesselMenuOpen)
    model,
    vesselName,
    position,
    plugins,
    rendererType,
    publishRender,
    physicsModes,
    physicsModesKeys,       \* the keys of the physicsModes object, in insertion order
    toggles,                \* the modes whose checkbox was clicked, in order (history)
    physicsConfig,
    initState,
    waypointFollower,
    edits,                  \* the number of field edits made in the dialog
    submitted,              \* handleAddVessel has run
    lotus_param,            \* the string handleAddVessel passed to onAddVessel
    \* The browser
    sockets,                \* the WebSocket objects created so far, in order
    localStorage,           \* the persisted settings, "" for an item never set
    currentIp,              \* the module-level address of apis.tsx ...
    currentPort,            \* ... read from localStorage when the module is loaded
    console,                \* how many warnings and errors were logged
    \* WebSocketClient
    clients,                \* the clients constructed so far: their ws field
    callbacks,              \* how often a client invoked vesselDataCallback
    connects,               \* how often connect() was called
    received,               \* how many message events were handled
    lastMessage,            \* the data of the message event handled last
    lastValid,              \* the array of the last message that was valid
    disconnected,           \* the clients disconnect() was called on
    transportEvents,        \* how many error and close events were handled
    nameCalls,              \* how many calls of sendClientName() the owner made
    deliveredBy,            \* the socket whose message the callback last ran for, 0 for none
    \* HomeDashboard
    mounted,
    effectPending,          \* a render has scheduled the connection effect
    effectRan,              \* the effect has run and its cleanup is due
    selectedInstance,
    vesselData,
    ws_client,              \* the ref: 0 for null, else the client's number
    wsteps,                 \* the number of calls and events so far
    \* Map
    currentZoom,
    contextMenuPosition,    \* <<>> for null, else <<point>>
    clickedLatLng,          \* <<>> for null, else <<latlng>>
    markers,                \* the rendered MarkerComponents, by key
    iconsMade,              \* how many divIcon objects were constructed
    \* The REST backend
    requests,               \* the HTTP requests issued so far, in order
    alerts                  \* how many alert() boxes were shown

nvars == <<str, norm, norm2, npc>>
cvars == <<plugins, rendererType, publishRender, physicsModes, physicsModesKeys, toggles,
           physicsConfig, initState, waypointFollower>>
ivars == <<model, vesselName, position>>
dvars == <<isAddVesselMenuOpen, ivars, cvars, edits, submitted, lotus_param>>
gvars == <<disconnected, transportEvents, nameCalls, deliveredBy>>
wvars == <<sockets, localStorage, currentIp, currentPort, console, clients, callbacks, connects, received, lastMessage,
           lastValid, gvars, mounted, effectPending, effectRan, selectedInstance, vesselData,
           ws_client, wsteps>>
mvars == <<currentZoom, contextMenuPosition, clickedLatLng, markers, iconsMade>>
rvars == <<requests, alerts>>
vars == <<nvars, dvars, wvars, mvars, rvars>>

(***************************************************************************)
(* The browser: WebSocket objects, localStorage and the console.           *)
(***************************************************************************)
MaxSteps == 7
MaxSockets == 2

Instances == {"lotusim", "sim2"}

\* The poses a telemetry message carries, in thousandths.
Pose1 == [latitude |-> 1240, longitude |-> 103710, elevation |-> 0, heading |-> 90000]
Pose2 == [latitude |-> 1250, longitude |-> 103720, elevation |-> 0, heading |-> 0]
Pose3 == [latitude |-> 1250, longitude |-> 103720, elevation |-> 0, heading |-> 90000]

\* An element of a JSON array: an object with its vessel_name ("" when the
\* property is missing or empty) and its pose (<<>> when the property is
\* missing or null), the value null, or a number.
Item(name, pose) == [kind |-> "object", vessel_name |-> name, pose |-> pose]
NullItem == [kind |-> "null", vessel_name |-> "", pose |-> <<>>]
NumberItem == [kind |-> "number", vessel_name |-> "", pose |-> <<>>]

\* event.data: a text that is not JSON, a JSON value that is no array, or a
\* JSON array of items.
Malformed == [json |-> "malformed", items |-> <<>>]
NonArray == [json |-> "object", items |-> <<>>]
Array(items) == [json |-> "array", items |-> items]

V1 == Item("v1", <<Pose1>>)
V2 == Item("v2", <<Pose2>>)
V3 == Item("v3", <<Pose3>>)

Messages ==
    {Malformed, NonArray, Array(<<>>), Array(<<V1>>), Array(<<V2>>), Array(<<V1, V2>>),
     Array(<<V1, Item("", <<Pose2>>)>>), Array(<<Item("v2", <<>>), V1>>),
     Array(<<V1, NullItem>>), Array(<<NumberItem>>), Array(<<V3>>)}

(***************************************************************************)
(* MarkerComponent: the marker of one vessel.  Sizes are in sixteenths of  *)
(* a pixel, headings in thousandths of a degree.                           *)
(***************************************************************************)
\* The zoom levels the map reports.
ZoomLevels == {0, 10, 14}

\* A variant that scales the base size by the zoom level.
getIconSizeScaled(zoomLevel) ==
    LET baseSize == 8
        scaledSize == baseSize * zoomLevel
    IN <<scaledSize, (scaledSize * 1625) \div 1000>>

\* getIconSize: baseSize 0.5, scaledSize = baseSize + zoom,
\* [scaledSize, scaledSize * 1.625].
getIconSize(zoomLevel) ==
    LET baseSize == 8
        scaledSize == baseSize + 16 * zoomLevel
    IN <<scaledSize, (scaledSize * 1625) \div 1000>>

\* new divIcon({html, iconSize}): a new object, id, whose image has the width
\* and height of getIconSize and is rotated by the heading.
divIcon(id, zoomLevel, heading) ==
    [id |-> id,
     iconSize |-> getIconSize(zoomLevel),
     width |-> getIconSize(zoomLevel)[1],
     height |-> getIconSize(zoomLevel)[2],
     rotate |-> heading]

\* A variant without the memo: every render makes a new icon.
customIconAlwaysNew(prev, zoomLevel, heading, id) == divIcon(id, zoomLevel, heading)

\* useMemo(() => divIcon(...), [zoomLevel, vessel.pose.heading]): prev is the
\* last render of the component, <<>> when it mounts in this render.
customIcon(prev, zoomLevel, heading, id) ==
    IF prev # <<>> /\ prev[1].deps = <<zoomLevel, heading>>
    THEN prev[1].icon
    ELSE divIcon(id, zoomLevel, heading)

\* One render of MarkerComponent: <Marker position={[latitude, longitude]}
\* icon={customIcon}>.
MarkerComponent(prev, vessel, zoomLevel, id) ==
    [position |-> <<vessel.pose[1].latitude, vessel.pose[1].longitude>>,
     deps |-> <<zoomLevel, vessel.pose[1].heading>>,
     icon |-> customIcon(prev, zoomLevel, vessel.pose[1].heading, id)]

\* vesselData.map((vessel, index) => <MarkerComponent key={index} .../>) from
\* index i on: the component of a key is kept from the last render, made is
\* the number of icons created so far.
RECURSIVE RenderFrom(_, _, _, _, _, _)
RenderFrom(data, zoomLevel, prev, i, made, acc) ==
    IF i > Len(data)
    THEN [markers |-> acc, iconsMade |-> made]
    ELSE LET last == IF i <= Len(prev) THEN <<prev[i]>> ELSE <<>>
             marker == MarkerComponent(last, data[i], zoomLevel, made + 1)
         IN RenderFrom(data, zoomLevel, prev, i + 1,
                       IF marker.icon.id = made + 1 THEN made + 1 ELSE made,
                       Append(acc, marker))

\* A variant that keeps the markers of the last render next to the new ones.
RenderMarkersKeepingOld(data, zoomLevel) ==
    LET r == RenderFrom(data, zoomLevel, markers, 1, iconsMade, <<>>)
    IN /\ markers' = r.markers \o SubSeq(markers, Len(data) + 1, Len(markers))
       /\ iconsMade' = r.iconsMade

\* A render of Map with vesselData data at zoom zoomLevel.
RenderMarkers(data, zoomLevel) ==
    LET r == RenderFrom(data, zoomLevel, markers, 1, iconsMade, <<>>)
    IN /\ markers' = r.markers
       /\ iconsMade' = r.iconsMade

BrowserDefaults ==
    /\ sockets = <<>>
    /\ console = [warn |-> 0, error |-> 0]
    /\ callbacks = 0
    /\ connects = 0
    /\ received = 0
    /\ lastMessage = Malformed
    /\ lastValid = <<>>
    /\ wsteps = 0
    /\ disconnected = {}
    /\ transportEvents = 0
    /\ nameCalls = 0
    /\ deliveredBy = 0

\* The storage of a browser that never ran the application.
EmptyStorage == [ip |-> "", port |-> "", instance |-> ""]

\* The storage a previous session may have left.
Storages ==
    {[ip |-> ip, port |-> IF ip = "" THEN "" ELSE "5000", instance |-> instance] :
        ip \in {"", "10.0.0.1"}, instance \in {""} \cup Instances}

\* The ports of the address field, and Number.toString and parseInt(_, 10)
\* on them.
Ports == {0, 5000, 8080}
toString(port) == CASE port = 0 -> "0" [] port = 5000 -> "5000" [] port = 8080 -> "8080"
parseInt(text) == CASE text = "0" -> 0 [] text = "5000" -> 5000 [] text = "8080" -> 8080

\* localStorage.getItem('ip') || 'localhost' and
\* parseInt(localStorage.getItem('port') || '5000', 10)
getAddress ==
    [ip |-> IF localStorage["ip"] = "" THEN "localhost" ELSE localStorage["ip"],
     port |-> parseInt(IF localStorage["port"] = "" THEN "5000" ELSE localStorage["port"])]

\* The module apis.tsx is loaded: currentIp and currentPort are read from
\* localStorage.
ModuleLoaded == currentIp = getAddress.ip /\ currentPort = getAddress.port

\* saveAddress(ip, port)
saveAddress(ip, port) ==
    /\ localStorage' = [localStorage EXCEPT !["ip"] = ip, !["port"] = toString(port)]
    /\ currentIp' = ip
    /\ currentPort' = port

\* localStorage.getItem('instance') || ''
getInstance == localStorage["instance"]

consoleWarn == console' = [console EXCEPT !.warn = @ + 1]
consoleError == console' = [console EXCEPT !.error = @ + 1]

(***************************************************************************)
(* HomeDashboard.updateVesselData, the callback of every client.           *)
(***************************************************************************)
\* A variant that keeps the entries of the previous batch whose vessel is
\* absent from the new one.
updateVesselDataMerging(newData) ==
    vesselData' = SelectSeq(vesselData,
                      LAMBDA old : \A i \in 1..Len(newData) :
                                      newData[i].vessel_name # old.vessel_name)
                  \o newData

updateVesselData(newData) == vesselData' = newData

(***************************************************************************)
(* WebSocketClient                                                         *)
(***************************************************************************)
Truthy(item) == item.vessel_name # "" /\ item.pose # <<>>

\* What `Array.isArray(data) && data.every(...)` inside the try block comes
\* to: "callback", "warn", or "error" when JSON.parse or the property access
\* on a null element throws.  every() stops at the first falsy result.
RECURSIVE EveryFrom(_, _)
EveryFrom(items, i) ==
    IF i > Len(items) THEN "callback"
    ELSE IF items[i].kind = "null" THEN "error"
    ELSE IF items[i].kind = "number" \/ ~Truthy(items[i]) THEN "warn"
    ELSE EveryFrom(items, i + 1)

MessageOutcome(data) ==
    IF data.json = "malformed" THEN "error"
    ELSE IF data.json # "array" THEN "warn"
    ELSE EveryFrom(data.items, 1)

\* A message the telemetry protocol calls valid: a JSON array whose elements
\* all are objects with a truthy vessel_name and a truthy pose.
IsValidBatch(data) ==
    /\ data.json = "array"
    /\ \A i \in 1..Len(data.items) :
          data.items[i].kind = "object" /\ Truthy(data.items[i])

\* A variant that forwards the well-formed elements of an array that holds a
\* bad one, next to the warning.
handleMessageForwardingValid(data) ==
    LET outcome == MessageOutcome(data)
        good == SelectSeq(data.items, LAMBDA item : item.kind = "object" /\ Truthy(item))
    IN /\ IF outcome = "callback"
          THEN updateVesselData(data.items) /\ callbacks' = callbacks + 1
          ELSE IF outcome = "warn" /\ good # <<>>
          THEN updateVesselData(good) /\ callbacks' = callbacks + 1
          ELSE UNCHANGED <<vesselData, callbacks>>
       /\ IF outcome = "warn" THEN consoleWarn
          ELSE IF outcome = "error" THEN consoleError
          ELSE UNCHANGED console

handleMessage(data) ==
    LET outcome == MessageOutcome(data)
    IN /\ IF outcome = "callback"
          THEN updateVesselData(data.items) /\ callbacks' = callbacks + 1
          ELSE UNCHANGED <<vesselData, callbacks>>
       /\ IF outcome = "warn" THEN consoleWarn
          ELSE IF outcome = "error" THEN consoleError
          ELSE UNCHANGED console

\* new WebSocket(`ws://${address.ip}:5000`) for client c.
NewSocket(c) ==
    [readyState |-> "CONNECTING", host |-> getAddress.ip, port |-> 5000,
     owner |-> c, sent |-> <<>>]

\* A variant without the test of this.ws.
connectAlways(socks, cls, c) ==
    [sockets |-> Append(socks, NewSocket(c)),
     clients |-> [cls EXCEPT ![c].ws = Len(socks) + 1]]

\* connect() of client c: the sockets and clients it leaves.  The handlers
\* it installs on a new socket are the socket events below.
connect(socks, cls, c) ==
    IF cls[c].ws # 0
    THEN [sockets |-> socks, clients |-> cls]
    ELSE [sockets |-> Append(socks, NewSocket(c)),
          clients |-> [cls EXCEPT ![c].ws = Len(socks) + 1]]

\* WebSocket.close(): a socket that is connecting or open starts closing.
CloseSocket(socks, s) ==
    IF socks[s].readyState \in {"CONNECTING", "OPEN"}
    THEN [socks EXCEPT ![s].readyState = "CLOSING"]
    ELSE socks

\* disconnect() of client c: the sockets it leaves.
disconnect(socks, cls, c) ==
    IF cls[c].ws # 0 THEN CloseSocket(socks, cls[c].ws) ELSE socks

\* A variant that does not look at readyState.
sendClientNameUnchecked(c, socks) ==
    IF clients[c].ws # 0
    THEN /\ sockets' = [socks EXCEPT ![clients[c].ws].sent =
                            Append(@, [instance |-> getInstance])]
         /\ UNCHANGED console
    ELSE /\ sockets' = socks
         /\ consoleError

\* A variant that sends the instance selected in the dashboard.
sendClientNameOfSelection(c, socks) ==
    IF clients[c].ws # 0 /\ socks[clients[c].ws].readyState = "OPEN"
    THEN /\ sockets' = [socks EXCEPT ![clients[c].ws].sent =
                            Append(@, [instance |-> selectedInstance])]
         /\ UNCHANGED console
    ELSE /\ sockets' = socks
         /\ consoleError

\* sendClientName() of client c.
sendClientName(c, socks) ==
    IF clients[c].ws # 0 /\ socks[clients[c].ws].readyState = "OPEN"
    THEN /\ sockets' = [socks EXCEPT ![clients[c].ws].sent =
                            Append(@, [instance |-> getInstance])]
         /\ UNCHANGED console
    ELSE /\ sockets' = socks
         /\ consoleError

Step == wsteps < MaxSteps /\ wsteps' = wsteps + 1

\* A call of connect() on client c.
Connect(c) ==
    /\ Step
    /\ LET after == connect(sockets, clients, c)
       IN /\ Len(after.sockets) <= MaxSockets
          /\ sockets' = after.sockets
          /\ clients' = after.clients
    /\ connects' = connects + 1
    /\ UNCHANGED <<localStorage, currentIp, currentPort, console, callbacks, received, lastMessage, lastValid, mounted,
                   effectPending, effectRan, selectedInstance, vesselData, ws_client,
                   nvars, dvars, gvars, mvars, rvars>>

\* A call of disconnect() on client c.
Disconnect(c) ==
    /\ Step
    /\ sockets' = disconnect(sockets, clients, c)
    /\ disconnected' = disconnected \cup {c}
    /\ UNCHANGED <<localStorage, currentIp, currentPort, console, clients, callbacks, connects, received, lastMessage,
                   lastValid, mounted, effectPending, effectRan, selectedInstance,
                   vesselData, ws_client, nvars, dvars, transportEvents, nameCalls, deliveredBy, mvars, rvars>>

\* A call of sendClientName() on client c by its owner.
SendClientName(c) ==
    /\ Step
    /\ sendClientName(c, sockets)
    /\ nameCalls' = nameCalls + 1
    /\ UNCHANGED <<localStorage, currentIp, currentPort, clients, callbacks, connects, received, lastMessage,
                   lastValid, mounted, effectPending, effectRan, selectedInstance,
                   vesselData, ws_client, nvars, dvars, disconnected, transportEvents,
                   deliveredBy, mvars, rvars>>

\* The open event of socket s: onopen sends the client name.
SocketOpen(s) ==
    /\ Step
    /\ sockets[s].readyState = "CONNECTING"
    /\ sendClientName(sockets[s].owner, [sockets EXCEPT ![s].readyState = "OPEN"])
    /\ UNCHANGED <<localStorage, currentIp, currentPort, clients, callbacks, connects, received, lastMessage, lastValid,
                   mounted, effectPending, effectRan, selectedInstance, vesselData,
                   ws_client, nvars, dvars, gvars, mvars, rvars>>

\* A message event of socket s; the browser delivers none unless the socket
\* is open.
SocketMessage(s, data) ==
    /\ Step
    /\ sockets[s].readyState = "OPEN"
    /\ handleMessage(data)
    /\ received' = received + 1
    /\ lastMessage' = data
    /\ lastValid' = IF IsValidBatch(data) THEN data.items ELSE lastValid
    /\ IF mounted
       THEN RenderMarkers(vesselData', currentZoom)
       ELSE UNCHANGED <<markers, iconsMade>>
    /\ deliveredBy' = IF callbacks' # callbacks THEN s ELSE deliveredBy
    /\ UNCHANGED <<sockets, localStorage, currentIp, currentPort, clients, connects, mounted, effectPending,
                   effectRan, selectedInstance, ws_client, nvars, dvars, disconnected,
                   transportEvents, nameCalls,
                   currentZoom, contextMenuPosition, clickedLatLng, rvars>>

\* An error event of socket s: onerror logs it.
SocketError(s) ==
    /\ Step
    /\ sockets[s].readyState # "CLOSED"
    /\ consoleError
    /\ transportEvents' = transportEvents + 1
    /\ UNCHANGED <<sockets, localStorage, currentIp, currentPort, clients, callbacks, connects, received, lastMessage,
                   lastValid, mounted, effectPending, effectRan, selectedInstance,
                   vesselData, ws_client, nvars, dvars, disconnected, nameCalls, deliveredBy, mvars, rvars>>

\* A variant whose onclose opens a new connection after an unclean close.
SocketCloseReconnecting(s, wasClean) ==
    /\ Step
    /\ sockets[s].readyState # "CLOSED"
    /\ Len(sockets) < MaxSockets
    /\ LET closed == [sockets EXCEPT ![s].readyState = "CLOSED"]
       IN IF wasClean
          THEN sockets' = closed /\ UNCHANGED <<console, clients>>
          ELSE /\ sockets' = Append(closed, NewSocket(sockets[s].owner))
               /\ clients' = [clients EXCEPT ![sockets[s].owner].ws = Len(sockets) + 1]
               /\ consoleError
    /\ transportEvents' = transportEvents + 1
    /\ UNCHANGED <<localStorage, currentIp, currentPort, callbacks, connects, received, lastMessage, lastValid,
                   mounted, effectPending, effectRan, selectedInstance, vesselData,
                   ws_client, nvars, dvars, disconnected, nameCalls, deliveredBy, mvars, rvars>>

\* The close event of socket s: onclose logs an unclean close as an error.
SocketClose(s, wasClean) ==
    /\ Step
    /\ sockets[s].readyState # "CLOSED"
    /\ sockets' = [sockets EXCEPT ![s].readyState = "CLOSED"]
    /\ transportEvents' = transportEvents + 1
    /\ IF wasClean THEN UNCHANGED console ELSE consoleError
    /\ UNCHANGED <<localStorage, currentIp, currentPort, clients, callbacks, connects, received, lastMessage, lastValid,
                   mounted, effectPending, effectRan, selectedInstance, vesselData,
                   ws_client, nvars, dvars, disconnected, nameCalls, deliveredBy, mvars, rvars>>

SocketEvent ==
    \E s \in 1..Len(sockets) :
        \/ SocketOpen(s)
        \/ \E data \in Messages : SocketMessage(s, data)
        \/ SocketError(s)
        \/ \E wasClean \in BOOLEAN : SocketClose(s, wasClean)

\* The state the hooks of Map start from; zoom is the mapSettings.zoom the
\* dashboard passes.
MapDefaults ==
    /\ currentZoom = 14
    /\ contextMenuPosition = <<>>
    /\ clickedLatLng = <<>>
    /\ markers = <<>>
    /\ iconsMade = 0

\* No request was issued and no alert shown.
RestDefaults == requests = <<>> /\ alerts = 0

(***************************************************************************)
(* The REST wrappers and HomeDashboard.spawnVessel.                        *)
(***************************************************************************)
MaxRequests == 2

\* An axios call: the request is on its way, its promise not yet settled.
Request(kind, method, path, body) ==
    [kind |-> kind, method |-> method, path |-> path, body |-> body, status |-> "pending",
     returned |-> <<>>]

\* spawnVesselOnInstance(instanceName, mascmd)
spawnVesselOnInstance(instanceName, mascmd) ==
    requests' = Append(requests,
                    Request("spawn", "POST", <<"instance", instanceName, "vessel">>, mascmd))

\* JSON.stringify(mascmd) of spawnVessel, as the JSON value it denotes.
mascmd(model_name, vessel_name, pos, lotus) ==
    [cmd_type |-> Num(0),
     sdf_string |-> Str(lotus),
     model_name |-> Str(model_name),
     vessel_name |-> Str(vessel_name),
     geo_point |-> [latitude |-> JsonValue(pos.latitude),
                    longitude |-> JsonValue(pos.longitude),
                    altitude |-> JsonValue(pos.elevation)],
     heading |-> JsonValue(pos.heading)]

\* HomeDashboard.spawnVessel; the promise of the call is dropped.
spawnVessel(model_name, vessel_name, pos, lotus) ==
    spawnVesselOnInstance(selectedInstance, mascmd(model_name, vessel_name, pos, lotus))

\* No dashboard is mounted.
NoDashboard ==
    /\ mounted = FALSE /\ effectPending = FALSE /\ effectRan = FALSE
    /\ selectedInstance = "lotusim"
    /\ vesselData = <<>>
    /\ ws_client = 0

(***************************************************************************)
(* AddVesselMenu: the state hooks of the dialog and its handlers.          *)
(***************************************************************************)
MaxEdits == 4
MaxThrusters == 3
MaxWaypoints == 2

connectionTypes == <<<<"T", "C", "P", "I", "P">>, <<"R", "O", "S", "2">>>>

\* mode.charAt(0).toUpperCase() + mode.slice(1)
Capitalized(mode) ==
    CASE mode = "aerial" -> <<"A", "e", "r", "i", "a", "l">>
      [] mode = "surface" -> <<"S", "u", "r", "f", "a", "c", "e">>
      [] mode = "underwater" -> <<"U", "n", "d", "e", "r", "w", "a", "t", "e", "r">>

initStateOptions ==
    LET enabled == SelectSeq(PhysicsModeEntries(physicsModesKeys),
                             LAMBDA mode : physicsModes[mode])
    IN [i \in 1..Len(enabled) |-> Capitalized(enabled[i])]

\* The values the useState hooks of a dialog start from, when it is mounted
\* with the given clickedLatLng.
InitialHooks(latlng) ==
    [model |-> <<>>,
     vesselName |-> <<>>,
     position |-> [latitude |-> Num(IF latlng = <<>> THEN 0 ELSE latlng[1].lat),
                   longitude |-> Num(IF latlng = <<>> THEN 0 ELSE latlng[1].lng),
                   elevation |-> Num(0), heading |-> Num(0)],
     plugins |-> [k \in {"physics engine", "rendering engine"} |-> FALSE],
     rendererType |-> <<>>,
     publishRender |-> FALSE,
     physicsModes |-> [m \in {"aerial", "surface", "underwater"} |-> FALSE],
     physicsModesKeys |-> physicsModeKeys,
     physicsConfig |-> [m \in {"aerial", "surface", "underwater"} |->
                           [connectionType |-> <<>>, uri |-> <<>>, thrusters |-> <<>>]],
     initState |-> <<>>,
     waypointFollower |-> [enabled |-> FALSE, loop |-> TRUE, linearAccLimit |-> 500,
                           angularAccLimit |-> 5, angularVelLimit |-> 10, mode |-> "",
                           waypoints |-> <<>>, line |-> [direction |-> 0, length |-> 0],
                           circle |-> [radius |-> 0]]]

\* The hooks hold their initial values.
HooksAre(h) ==
    /\ model = h.model
    /\ vesselName = h.vesselName
    /\ position = h.position
    /\ plugins = h.plugins
    /\ rendererType = h.rendererType
    /\ publishRender = h.publishRender
    /\ physicsModes = h.physicsModes
    /\ physicsModesKeys = h.physicsModesKeys
    /\ toggles = <<>>
    /\ physicsConfig = h.physicsConfig
    /\ initState = h.initState
    /\ waypointFollower = h.waypointFollower

\* A dialog that was just mounted.
DialogDefaults ==
    /\ isAddVesselMenuOpen = TRUE
    /\ HooksAre(InitialHooks(clickedLatLng))
    /\ edits = 0
    /\ submitted = FALSE
    /\ lotus_param = <<>>

\* The dialog state generateLotusParamXML reads.
Config ==
    [plugins |-> plugins, publishRender |-> publishRender, rendererType |-> rendererType,
     physicsModes |-> physicsModes, physicsModesKeys |-> physicsModesKeys,
     physicsConfig |-> physicsConfig,
     initState |-> initState, waypointFollower |-> waypointFollower]

generateLotusParamXML == GenerateXML(Config)

\* Texts the operator types or pastes into a free-text field.
Texts == {<<>>, <<"a">>, <<"<", "&", ">">>, <<"\"", "'">>, <<"&", "l", "t", ";">>}

\* Texts the operator enters into a numeric field.
NumInputs == {<<>>, <<"2">>, <<"-", "1", ".", "5">>}

\* Texts the operator enters into the thruster field: up to MaxThrusters
\* names, separated by commas with or without a space.
ThrusterNames == {<<"A">>, <<"<", "B">>}
ThrusterInputs ==
    {<<>>} \cup UNION {{Join(l, <<",", SPC>>), Join(l, <<",">>)} :
                       l \in UNION {[1..n -> ThrusterNames] : n \in 1..MaxThrusters}}

\* Texts the operator enters into a field of the position, a plain text
\* field.
PositionInputs ==
    {<<>>, <<"-">>, <<"2">>, <<"x">>, InfinityWord}

\* Texts the operator enters as the vessel name.
VesselNames == {<<>>, <<"v">>}

\* The names listModels() returned, the options of the model selector.
modelList == {<<"m">>}

\* An edit is made in the mounted dialog.
Editing == isAddVesselMenuOpen /\ edits < MaxEdits
Edited ==
    /\ edits' = edits + 1
    /\ UNCHANGED <<isAddVesselMenuOpen, submitted, lotus_param, nvars, wvars, mvars, rvars>>

setModel(value) ==
    /\ Editing
    /\ model' = value
    /\ Edited
    /\ UNCHANGED <<vesselName, position, cvars>>

setVesselName(value) ==
    /\ Editing
    /\ vesselName' = value
    /\ Edited
    /\ UNCHANGED <<model, position, cvars>>

\* handlePositionChange(e, field) with e.target.value = input
handlePositionChange(field, input) ==
    /\ Editing
    /\ IF input \in {<<>>, <<"-">>, <<".">>, <<"-", ".">>}
       THEN position' = [position EXCEPT ![field] = Str(input)]
       ELSE LET num == parseFloat(input)
            IN IF ~num.nan
               THEN position' = [position EXCEPT ![field] =
                                    IF num.inf THEN Infinity(num.value) ELSE Num(num.value)]
               ELSE UNCHANGED position
    /\ Edited
    /\ UNCHANGED <<model, vesselName, cvars>>

handleCheckboxChange(name) ==
    /\ Editing
    /\ plugins' = [plugins EXCEPT ![name] = ~plugins[name]]
    /\ Edited
    /\ UNCHANGED <<ivars, physicsModesKeys, toggles, rendererType, publishRender, physicsModes, physicsConfig, initState,
                   waypointFollower>>

setRendererType(value) ==
    /\ Editing /\ plugins["rendering engine"]
    /\ rendererType' = value
    /\ Edited
    /\ UNCHANGED <<ivars, physicsModesKeys, toggles, plugins, publishRender, physicsModes, physicsConfig, initState,
                   waypointFollower>>

setPublishRender ==
    /\ Editing /\ plugins["rendering engine"]
    /\ publishRender' = ~publishRender
    /\ Edited
    /\ UNCHANGED <<ivars, physicsModesKeys, toggles, plugins, rendererType, physicsModes, physicsConfig, initState,
                   waypointFollower>>

setPhysicsModes(mode) ==
    /\ Editing /\ plugins["physics engine"]
    /\ physicsModes' = [physicsModes EXCEPT ![mode] = ~physicsModes[mode]]
    /\ physicsModesKeys' = SpreadKeys(physicsModesKeys, mode)
    /\ toggles' = Append(toggles, mode)
    /\ Edited
    /\ UNCHANGED <<ivars, plugins, rendererType, publishRender, physicsConfig, initState,
                   waypointFollower>>

\* handlePhysicsConfigChange(mode, field, value); the three fields of a mode
\* are shown while the physics engine and the mode are enabled.
handlePhysicsConfigChange(mode, field, value) ==
    /\ Editing /\ plugins["physics engine"] /\ physicsModes[mode]
    /\ physicsConfig' = [physicsConfig EXCEPT ![mode][field] = value]
    /\ Edited
    /\ UNCHANGED <<ivars, physicsModesKeys, toggles, plugins, rendererType, publishRender, physicsModes, initState,
                   waypointFollower>>

setConnectionType(mode) ==
    \E i \in 1..Len(connectionTypes) :
        handlePhysicsConfigChange(mode, "connectionType", connectionTypes[i])

setUri(mode) == \E value \in Texts : handlePhysicsConfigChange(mode, "uri", value)

setThrusters(mode) ==
    \E input \in ThrusterInputs :
        handlePhysicsConfigChange(mode, "thrusters", ParseThrusters(input))

setInitState ==
    /\ Editing /\ plugins["physics engine"]
    /\ \E value \in {<<>>} \cup {initStateOptions[i] : i \in 1..Len(initStateOptions)} :
          initState' = value
    /\ Edited
    /\ UNCHANGED <<ivars, physicsModesKeys, toggles, plugins, rendererType, publishRender, physicsModes, physicsConfig,
                   waypointFollower>>

\* setWaypointFollower((prev) => ({ ...prev, <field>: <value> }))
setWaypointFollower(next) ==
    /\ Editing
    /\ waypointFollower' = next
    /\ Edited
    /\ UNCHANGED <<ivars, physicsModesKeys, toggles, plugins, rendererType, publishRender, physicsModes, physicsConfig,
                   initState>>

toggleWaypointFollower ==
    setWaypointFollower([waypointFollower EXCEPT !.enabled = ~waypointFollower.enabled])

toggleLoop ==
    /\ waypointFollower.enabled
    /\ setWaypointFollower([waypointFollower EXCEPT !.loop = ~waypointFollower.loop])

setLimit(field) ==
    /\ waypointFollower.enabled
    /\ \E input \in NumInputs :
          setWaypointFollower([waypointFollower EXCEPT ![field] = parseFloatOrZero(input)])

setFollowerMode ==
    /\ waypointFollower.enabled
    /\ \E mode \in {"", "waypoints", "line", "circle"} :
          setWaypointFollower([waypointFollower EXCEPT !.mode = mode])

addWaypoint ==
    /\ waypointFollower.enabled /\ waypointFollower.mode = "waypoints"
    /\ Len(waypointFollower.waypoints) < MaxWaypoints
    /\ setWaypointFollower([waypointFollower EXCEPT
           !.waypoints = Append(@, [lat |-> 0, lng |-> 0])])

setWaypoint(field) ==
    /\ waypointFollower.enabled /\ waypointFollower.mode = "waypoints"
    /\ \E idx \in 1..Len(waypointFollower.waypoints), input \in NumInputs :
          setWaypointFollower([waypointFollower EXCEPT
              !.waypoints[idx][field] = parseFloatOrZero(input)])

setLine(field) ==
    /\ waypointFollower.enabled /\ waypointFollower.mode = "line"
    /\ \E input \in NumInputs :
          setWaypointFollower([waypointFollower EXCEPT
              !.line[field] = parseFloatOrZero(input)])

setCircleRadius ==
    /\ waypointFollower.enabled /\ waypointFollower.mode = "circle"
    /\ \E input \in NumInputs :
          setWaypointFollower([waypointFollower EXCEPT
              !.circle = [radius |-> parseFloatOrZero(input)]])

\* Map.closeAddVesselMenu
closeAddVesselMenu ==
    /\ isAddVesselMenuOpen' = FALSE
    /\ contextMenuPosition' = <<>>

\* Map.addVessel, the onAddVessel of the dialog.
addVessel(model_name, vessel_name, pos, lotus) ==
    /\ spawnVessel(model_name, vessel_name, pos, lotus)
    /\ closeAddVesselMenu

\* handleAddVessel: serialize, hand the vessel to onAddVessel, close.  The
\* hooks keep the configuration of the submit until the dialog is mounted
\* again.
handleAddVessel ==
    /\ isAddVesselMenuOpen
    /\ lotus_param' = generateLotusParamXML
    /\ addVessel(model, vesselName, position, lotus_param')
    /\ submitted' = TRUE
    /\ UNCHANGED <<ivars, cvars, edits, nvars, wvars, alerts,
                   currentZoom, clickedLatLng, markers, iconsMade>>

\* No text is being normalized.
NormIdle == str = <<>> /\ norm = <<>> /\ norm2 = <<>> /\ npc = "in"

Init ==
    /\ MapDefaults /\ RestDefaults
    /\ DialogDefaults /\ NormIdle /\ BrowserDefaults /\ NoDashboard
    /\ localStorage = EmptyStorage
    /\ ModuleLoaded
    /\ clients = <<>>

Next ==
    \/ \E name \in {"physics engine", "rendering engine"} : handleCheckboxChange(name)
    \/ \E value \in Texts : setRendererType(value)
    \/ setPublishRender
    \/ \E mode \in {"aerial", "surface", "underwater"} : setPhysicsModes(mode)
    \/ \E mode \in {"aerial", "surface", "underwater"} : setConnectionType(mode)
    \/ \E mode \in {"aerial", "surface", "underwater"} : setUri(mode)
    \/ \E mode \in {"aerial", "surface", "underwater"} : setThrusters(mode)
    \/ setInitState
    \/ toggleWaypointFollower
    \/ toggleLoop
    \/ \E field \in {"linearAccLimit", "angularAccLimit", "angularVelLimit"} : setLimit(field)
    \/ setFollowerMode
    \/ addWaypoint
    \/ \E field \in {"lat", "lng"} : setWaypoint(field)
    \/ \E field \in {"direction", "length"} : setLine(field)
    \/ setCircleRadius
    \/ handleAddVessel

Spec == Init /\ [][Next]_vars

(***************************************************************************)
(* The telemetry client on its own.                                        *)
(***************************************************************************)
\* One client, constructed with the callback, driven by any sequence of
\* connect() and disconnect() calls and socket events.
ClientInit ==
    /\ MapDefaults /\ RestDefaults
    /\ DialogDefaults /\ NormIdle /\ BrowserDefaults /\ NoDashboard
    /\ localStorage = EmptyStorage
    /\ ModuleLoaded
    /\ clients = <<[ws |-> 0]>>

ClientNext == Connect(1) \/ Disconnect(1) \/ SendClientName(1) \/ SocketEvent

ClientSpec == ClientInit /\ [][ClientNext]_vars

(***************************************************************************)
(* HomeDashboard: the connection effect and the instance selector.         *)
(***************************************************************************)
\* A variant of the cleanup that leaves the connection as it is.
CleanupKeepingConnection(socks) == socks

\* The cleanup of the effect: ws_client.current?.disconnect().
Cleanup(socks) ==
    IF effectRan /\ ws_client # 0 THEN disconnect(socks, clients, ws_client) ELSE socks

\* The clients disconnect() was called on, after the cleanup.
CleanupDisconnected ==
    IF effectRan /\ ws_client # 0 THEN disconnected \cup {ws_client} ELSE disconnected

\* React flushes the effect of `useEffect(..., [selectedInstance])`: the
\* cleanup of the previous run, then the body, which finds the ref null
\* after a cleanup, constructs a client and connects it.
RunEffect ==
    /\ Step
    /\ mounted /\ effectPending
    /\ LET closed == Cleanup(sockets)
           ref == IF effectRan THEN 0 ELSE ws_client
           c == Len(clients) + 1
           after == connect(closed, Append(clients, [ws |-> 0]), c)
       IN IF ref = 0
          THEN /\ Len(after.sockets) <= MaxSockets
               /\ sockets' = after.sockets
               /\ clients' = after.clients
               /\ ws_client' = c
               /\ connects' = connects + 1
          ELSE /\ sockets' = closed
               /\ UNCHANGED <<clients, ws_client, connects>>
    /\ disconnected' = CleanupDisconnected
    /\ effectPending' = FALSE
    /\ effectRan' = TRUE
    /\ UNCHANGED <<localStorage, currentIp, currentPort, console, callbacks, received, lastMessage, lastValid, mounted,
                   selectedInstance, vesselData, nvars, dvars, transportEvents, nameCalls, deliveredBy, mvars, rvars>>

\* saveInstance
saveInstance(instance) ==
    /\ localStorage' = [localStorage EXCEPT !["instance"] = instance]
    /\ UNCHANGED <<currentIp, currentPort>>

\* SideBar.handleInstanceChange: the selector picked another instance.
handleInstanceChange(value) ==
    /\ Step
    /\ mounted /\ value # selectedInstance
    /\ selectedInstance' = value
    /\ saveInstance(value)
    /\ effectPending' = TRUE
    /\ UNCHANGED <<sockets, console, clients, callbacks, connects, received, lastMessage, lastValid,
                   mounted, effectRan, vesselData, ws_client, nvars, dvars, gvars, mvars, rvars>>

\* The dashboard is unmounted: the cleanup of the effect runs.
Unmount ==
    /\ Step
    /\ mounted
    /\ sockets' = Cleanup(sockets)
    /\ ws_client' = IF effectRan THEN 0 ELSE ws_client
    /\ disconnected' = CleanupDisconnected
    /\ mounted' = FALSE
    /\ effectPending' = FALSE
    /\ effectRan' = FALSE
    /\ markers' = <<>>
    /\ UNCHANGED <<localStorage, currentIp, currentPort, console, clients, callbacks, connects, received, lastMessage,
                   lastValid, selectedInstance, vesselData, nvars, dvars, transportEvents, nameCalls, deliveredBy,
                   currentZoom, contextMenuPosition, clickedLatLng, iconsMade, rvars>>

\* The dashboard after its first render, before its effect has run.
DashInit ==
    /\ MapDefaults /\ RestDefaults
    /\ DialogDefaults /\ NormIdle /\ BrowserDefaults
    /\ localStorage \in Storages
    /\ ModuleLoaded
    /\ clients = <<>>
    /\ mounted = TRUE /\ effectPending = TRUE /\ effectRan = FALSE
    /\ selectedInstance = "lotusim"
    /\ vesselData = <<>>
    /\ ws_client = 0

\* handleZoom: the zoom event of the map; Map renders again at the new zoom.
handleZoom(zoom) ==
    /\ Step
    /\ mounted
    /\ currentZoom' = zoom
    /\ RenderMarkers(vesselData, zoom)
    /\ UNCHANGED <<sockets, localStorage, currentIp, currentPort, console, clients, callbacks, connects, received,
                   lastMessage, lastValid, mounted, effectPending, effectRan,
                   selectedInstance, ws_client, vesselData, nvars, dvars, gvars,
                   contextMenuPosition, clickedLatLng, rvars>>

DashNext ==
    \/ RunEffect
    \/ \E value \in Instances : handleInstanceChange(value)
    \/ Unmount
    \/ SocketEvent
    \/ \E zoom \in ZoomLevels : handleZoom(zoom)

DashSpec == DashInit /\ [][DashNext]_vars

(***************************************************************************)
(* SideBar: the address fields and their Save button.                      *)
(***************************************************************************)
\* The contents of the IP field; the operator may clear it.
Ips == {"", "10.0.0.1", "10.0.0.2"}

\* The base of the URL of every REST wrapper: `http://${currentIp}:${currentPort}`.
baseUrl == [host |-> currentIp, port |-> currentPort]

\* SideBar.handleSaveAddress, with the contents of the IP and Port fields
\* at the time of the click.
handleSaveAddress(ip, port) ==
    /\ Step
    /\ mounted
    /\ saveAddress(ip, port)
    /\ UNCHANGED <<sockets, console, clients, callbacks, connects, received, lastMessage,
                   lastValid, gvars, mounted, effectPending, effectRan, selectedInstance,
                   vesselData, ws_client, nvars, dvars, mvars, rvars>>

AddressNext ==
    \/ RunEffect
    \/ \E value \in Instances : handleInstanceChange(value)
    \/ \E ip \in Ips, port \in Ports : handleSaveAddress(ip, port)
    \/ \E s \in 1..Len(sockets) : SocketOpen(s)
    \/ Unmount

AddressSpec == DashInit /\ [][AddressNext]_vars

(***************************************************************************)
(* Map: the context menu and the mounting of the dialog.                   *)
(***************************************************************************)
\* Where the operator right-clicks: e.latlng, in thousandths of a degree,
\* and the clientX and clientY of e.originalEvent, in pixels.
LatLngs == {[lat |-> 1240, lng |-> 103710]}
Points == {[clientX |-> 10, clientY |-> 20]}

\* mapRef.current.getBoundingClientRect() of the mounted map.
mapBounds == [left |-> 4, top |-> 6]

\* A variant that places the menu at the client coordinates of the click.
MapRightClickAtClient(latlng, point) ==
    /\ mounted /\ ~isAddVesselMenuOpen
    /\ clickedLatLng' = <<latlng>>
    /\ contextMenuPosition' = <<[x |-> point.clientX, y |-> point.clientY]>>
    /\ UNCHANGED <<currentZoom, markers, iconsMade, nvars, dvars, wvars, rvars>>

\* The contextmenu event of the map.  The dialog is modal: while it is open
\* no pointer event reaches the map.
MapRightClick(latlng, point) ==
    /\ mounted /\ ~isAddVesselMenuOpen
    /\ clickedLatLng' = <<latlng>>
    /\ contextMenuPosition' = <<[x |-> point.clientX - mapBounds.left,
                                  y |-> point.clientY - mapBounds.top]>>
    /\ UNCHANGED <<currentZoom, markers, iconsMade, nvars, dvars, wvars, rvars>>

\* Cancel in the context menu, or a click away from it.
handleCloseContextMenu ==
    /\ mounted /\ contextMenuPosition # <<>>
    /\ contextMenuPosition' = <<>>
    /\ UNCHANGED <<currentZoom, clickedLatLng, markers, iconsMade, nvars, dvars, wvars, rvars>>

\* A variant that shows the dialog again with the hooks of the last one.
openAddVesselMenuKeepingHooks ==
    /\ mounted /\ contextMenuPosition # <<>> /\ ~isAddVesselMenuOpen
    /\ isAddVesselMenuOpen' = TRUE
    /\ contextMenuPosition' = <<>>
    /\ submitted' = FALSE
    /\ UNCHANGED <<ivars, cvars, edits, lotus_param, currentZoom, clickedLatLng, markers,
                   iconsMade, nvars, wvars, rvars>>

\* "Add Vessel" in the context menu: openAddVesselMenu, after which the
\* render mounts an AddVesselMenu whose hooks start from their initial
\* values.
openAddVesselMenu ==
    /\ mounted /\ contextMenuPosition # <<>> /\ ~isAddVesselMenuOpen
    /\ isAddVesselMenuOpen' = TRUE
    /\ contextMenuPosition' = <<>>
    /\ LET h == InitialHooks(clickedLatLng)
       IN /\ model' = h.model
          /\ vesselName' = h.vesselName
          /\ position' = h.position
          /\ plugins' = h.plugins
          /\ rendererType' = h.rendererType
          /\ publishRender' = h.publishRender
          /\ physicsModes' = h.physicsModes
          /\ physicsModesKeys' = h.physicsModesKeys
          /\ toggles' = <<>>
          /\ physicsConfig' = h.physicsConfig
          /\ initState' = h.initState
          /\ waypointFollower' = h.waypointFollower
    /\ submitted' = FALSE
    /\ UNCHANGED <<edits, lotus_param, currentZoom, clickedLatLng, markers, iconsMade,
                   nvars, wvars, rvars>>

\* Cancel in the dialog, or a click on its backdrop: onClose.
CancelAddVessel ==
    /\ mounted /\ isAddVesselMenuOpen
    /\ closeAddVesselMenu
    /\ UNCHANGED <<ivars, cvars, edits, submitted, lotus_param, currentZoom, clickedLatLng,
                   markers, iconsMade, nvars, wvars, rvars>>

(***************************************************************************)
(* The answers of the backend, and the pages that create and delete.       *)
(***************************************************************************)
\* How a request ends: status 200, another 2xx status, a status axios
\* rejects, or no response at all.
Outcomes == {"200", "2xx", "rejected", "network"}

\* axios rejects its promise: the await throws into the catch of the wrapper.
Throws(outcome) == outcome \in {"rejected", "network"}

\* The values a wrapper returns, and the promise of an async function: it is
\* fulfilled with the value returned or rejected with the error thrown.
Bool(b) == [type |-> "boolean", b |-> b, list |-> <<>>]
List(l) == [type |-> "array", b |-> FALSE, list |-> l]
Fulfilled(value) == [state |-> "fulfilled", value |-> value]
Rejected == [state |-> "rejected", value |-> Bool(FALSE)]

ListWrappers == {"listScenarios", "listInstances", "listModels"}
StatusWrappers ==
    {"createScenario", "deleteScenario", "createInstance", "deleteInstance",
     "spawnVesselOnInstance", "deleteModel"}
Wrappers == ListWrappers \cup StatusWrappers \cup {"createModel"}

\* A variant whose delete wrappers let the error of axios through.
WrapperRethrowing(wrapper, outcomes, data) ==
    CASE wrapper \in ListWrappers ->
            IF Throws(outcomes[1]) THEN Fulfilled(List(<<>>)) ELSE Fulfilled(List(data))
      [] wrapper = "createModel" ->
            IF Throws(outcomes[1]) \/ Throws(outcomes[2])
            THEN Fulfilled(Bool(FALSE)) ELSE Fulfilled(Bool(TRUE))
      [] wrapper \in {"deleteScenario", "deleteInstance", "deleteModel"} ->
            IF Throws(outcomes[1]) THEN Rejected
            ELSE Fulfilled(Bool(outcomes[1] = "200"))
      [] OTHER ->
            IF Throws(outcomes[1]) THEN Fulfilled(Bool(FALSE))
            ELSE Fulfilled(Bool(outcomes[1] = "200"))

\* What the promise of a wrapper settles to when its axios calls end with
\* the given outcomes: the list wrappers return response.data and [] from
\* the catch; createModel returns true after its two posts and false from
\* either catch; the others return response.status === 200 and false from
\* the catch.
Wrapper(wrapper, outcomes, data) ==
    CASE wrapper \in ListWrappers ->
            IF Throws(outcomes[1]) THEN Fulfilled(List(<<>>)) ELSE Fulfilled(List(data))
      [] wrapper = "createModel" ->
            IF Throws(outcomes[1]) \/ Throws(outcomes[2])
            THEN Fulfilled(Bool(FALSE)) ELSE Fulfilled(Bool(TRUE))
      [] OTHER ->
            IF Throws(outcomes[1]) THEN Fulfilled(Bool(FALSE))
            ELSE Fulfilled(Bool(outcomes[1] = "200"))

\* The console.error calls of the wrapper: one in a catch, and one of
\* spawnVesselOnInstance for a status other than 200.
WrapperLogsError(wrapper, outcomes) ==
    \/ Throws(outcomes[1])
    \/ wrapper = "createModel" /\ Throws(outcomes[2])
    \/ wrapper = "spawnVesselOnInstance" /\ outcomes[1] # "200"

Pending(kind) == {i \in 1..Len(requests) : requests[i].kind = kind /\ requests[i].status = "pending"}

\* The promise of spawnVesselOnInstance settles; nothing awaits it.
SpawnResponse(i, outcome) ==
    /\ i \in Pending("spawn")
    /\ requests' = [requests EXCEPT
           ![i].status = outcome,
           ![i].returned = <<Wrapper("spawnVesselOnInstance", <<outcome>>, <<>>)>>]
    /\ IF outcome = "200" THEN UNCHANGED console ELSE consoleError
    /\ UNCHANGED <<alerts, localStorage, currentIp, currentPort, sockets, clients, callbacks, connects, received,
                   lastMessage, lastValid, gvars, mounted, effectPending, effectRan,
                   selectedInstance, vesselData, ws_client, wsteps, nvars, dvars, mvars>>

\* InstanceDashboard.handleCreateInstance up to its await; the Add button is
\* disabled while the name is empty or a creation is under way.
handleCreateInstance(newInstanceName) ==
    /\ newInstanceName # <<>> /\ Pending("create") = {}
    /\ Len(requests) < MaxRequests
    /\ requests' = Append(requests,
           Request("create", "POST", <<"instances">>,
                   [name |-> "Test instance", description |-> "This is a test instance"]))
    /\ UNCHANGED <<alerts, nvars, dvars, wvars, mvars>>

\* createInstance settles and handleCreateInstance resumes: anything but a
\* status 200 is answered with an alert.
CreateResponse(i, outcome) ==
    /\ i \in Pending("create")
    /\ requests' = [requests EXCEPT
           ![i].status = outcome,
           ![i].returned = <<Wrapper("createInstance", <<outcome>>, <<>>)>>]
    /\ IF outcome \in {"rejected", "network"} THEN consoleError ELSE UNCHANGED console
    /\ alerts' = IF outcome = "200" THEN alerts ELSE alerts + 1
    /\ UNCHANGED <<localStorage, currentIp, currentPort, sockets, clients, callbacks, connects, received,
                   lastMessage, lastValid, gvars, mounted, effectPending, effectRan,
                   selectedInstance, vesselData, ws_client, wsteps, nvars, dvars, mvars>>

\* ModelSelection.handleDelete up to its await.
handleDelete(modelName) ==
    /\ Len(requests) < MaxRequests
    /\ requests' = Append(requests, Request("delete", "DELETE", <<"model">>, [name |-> modelName]))
    /\ UNCHANGED <<alerts, nvars, dvars, wvars, mvars>>

\* deleteModel settles and handleDelete resumes: a failure is logged by
\* deleteModel when axios threw, and by handleDelete in every case.
DeleteResponse(i, outcome) ==
    /\ i \in Pending("delete")
    /\ requests' = [requests EXCEPT
           ![i].status = outcome,
           ![i].returned = <<Wrapper("deleteModel", <<outcome>>, <<>>)>>]
    /\ console' = [console EXCEPT !.error =
                      @ + (IF outcome = "200" THEN 0
                           ELSE IF outcome = "2xx" THEN 1 ELSE 2)]
    /\ UNCHANGED <<alerts, localStorage, currentIp, currentPort, sockets, clients, callbacks, connects, received,
                   lastMessage, lastValid, gvars, mounted, effectPending, effectRan,
                   selectedInstance, vesselData, ws_client, wsteps, nvars, dvars, mvars>>

(***************************************************************************)
(* The operator at the home dashboard: the instance selector, the map and  *)
(* one spawn dialog, from the right-click that opens it to its submit.     *)
(***************************************************************************)
\* The one dialog of the session is mounted.
OpenDialog == requests = <<>> /\ ~submitted /\ openAddVesselMenu

SpawnInit ==
    /\ MapDefaults /\ RestDefaults
    /\ HooksAre(InitialHooks(<<>>))
    /\ isAddVesselMenuOpen = FALSE
    /\ edits = 0 /\ submitted = FALSE /\ lotus_param = <<>>
    /\ NormIdle /\ BrowserDefaults
    /\ localStorage = EmptyStorage
    /\ ModuleLoaded
    /\ clients = <<>>
    /\ mounted = TRUE /\ effectPending = TRUE /\ effectRan = FALSE
    /\ selectedInstance = "lotusim"
    /\ vesselData = <<>>
    /\ ws_client = 0

SpawnNext ==
    \/ \E value \in Instances : handleInstanceChange(value)
    \/ \E latlng \in LatLngs, point \in Points : MapRightClick(latlng, point)
    \/ OpenDialog
    \/ \E value \in {<<>>} \cup modelList : setModel(value)
    \/ \E value \in VesselNames : setVesselName(value)
    \/ \E field \in {"latitude", "longitude", "elevation", "heading"},
          input \in PositionInputs : handlePositionChange(field, input)
    \/ handleCheckboxChange("rendering engine")
    \/ handleAddVessel

SpawnSpec == SpawnInit /\ [][SpawnNext]_vars

(***************************************************************************)
(* The context menu and the dialog over several sessions.                  *)
(***************************************************************************)
\* The right-clicks of these sessions.
MenuLatLngs == LatLngs \cup {[lat |-> 1250, lng |-> 103720]}
MenuPoints == Points \cup {[clientX |-> 300, clientY |-> 150]}

\* "Add Vessel" in the context menu, while the sessions may still submit.
OpenSession == Len(requests) < MaxRequests /\ openAddVesselMenu

MenuNext ==
    \/ \E latlng \in MenuLatLngs, point \in MenuPoints : MapRightClick(latlng, point)
    \/ handleCloseContextMenu
    \/ OpenSession
    \/ CancelAddVessel
    \/ \E name \in {"physics engine", "rendering engine"} : handleCheckboxChange(name)
    \/ toggleWaypointFollower
    \/ setFollowerMode
    \/ addWaypoint
    \/ handlePositionChange("latitude", <<"2">>)
    \/ handleAddVessel

MenuSpec == SpawnInit /\ [][MenuNext]_vars

(***************************************************************************)
(* The REST submissions of the operator: the spawn of the dialog, the      *)
(* creation of an instance and the deletion of a model, and their answers. *)
(***************************************************************************)
RestNext ==
    \/ \E name \in {"physics engine", "rendering engine"} : handleCheckboxChange(name)
    \/ handleAddVessel
    \/ \E name \in {<<"i">>} : handleCreateInstance(name)
    \/ \E modelName \in modelList : handleDelete(modelName)
    \/ \E i \in 1..Len(requests), outcome \in Outcomes :
          \/ SpawnResponse(i, outcome)
          \/ CreateResponse(i, outcome)
          \/ DeleteResponse(i, outcome)

RestSpec == Init /\ [][RestNext]_vars

(***************************************************************************)
(* The dialog with free-text values that hold whitespace.                  *)
(***************************************************************************)
\* Texts with a space, a run of two spaces, a tab, and a space alone.
SpacedTexts ==
    {<<"a">>, <<"a", SPC, "b">>, <<"a", SPC, SPC, "b">>, <<"a", TAB, "b">>, <<SPC>>}

SpacedNext ==
    \/ \E name \in {"physics engine", "rendering engine"} : handleCheckboxChange(name)
    \/ \E value \in SpacedTexts : setRendererType(value)
    \/ setPhysicsModes("aerial")
    \/ \E value \in SpacedTexts : handlePhysicsConfigChange("aerial", "uri", value)
    \/ \E value \in SpacedTexts :
          handlePhysicsConfigChange("aerial", "thrusters", ParseThrusters(value))
    \/ handleAddVessel

SpacedSpec == Init /\ [][SpacedNext]_vars

(***************************************************************************)
(* The REST wrappers, each called on its own.                              *)
(***************************************************************************)
\* response.data of a list request.
ResponseData == {<<>>, <<"a", "b">>}

\* The first axios call of a wrapper, for the name "n".
ApiRequest(wrapper) ==
    CASE wrapper = "listScenarios" -> Request(wrapper, "GET", <<"scenarios">>, <<>>)
      [] wrapper = "createScenario" -> Request(wrapper, "POST", <<"scenarios">>, <<>>)
      [] wrapper = "deleteScenario" -> Request(wrapper, "DELETE", <<"scenarios", "n">>, <<>>)
      [] wrapper = "listInstances" -> Request(wrapper, "GET", <<"instances">>, <<>>)
      [] wrapper = "createInstance" -> Request(wrapper, "POST", <<"instances">>, <<>>)
      [] wrapper = "deleteInstance" -> Request(wrapper, "DELETE", <<"instances", "n">>, <<>>)
      [] wrapper = "spawnVesselOnInstance" ->
            Request(wrapper, "POST", <<"instance", "n", "vessel">>, <<>>)
      [] wrapper = "listModels" -> Request(wrapper, "GET", <<"models">>, <<>>)
      [] wrapper = "createModel" -> Request(wrapper, "POST", <<"model">>, <<>>)
      [] wrapper = "deleteModel" -> Request(wrapper, "DELETE", <<"model">>, <<>>)

\* A caller invokes a wrapper and awaits it.
ApiCall(wrapper) ==
    /\ Len(requests) < MaxRequests
    /\ requests' = Append(requests, ApiRequest(wrapper))
    /\ UNCHANGED <<alerts, nvars, dvars, wvars, mvars>>

\* The axios calls of the wrapper of request i end and its promise settles;
\* the second outcome is the one of the upload of createModel, which is
\* made when the first post did not throw.  The status kept is the one of
\* the last call made.
ApiSettle(i, outcomes, data) ==
    /\ i \in 1..Len(requests)
    /\ requests[i].kind \in Wrappers /\ requests[i].status = "pending"
    /\ requests' = [requests EXCEPT
           ![i].status = IF requests[i].kind = "createModel" /\ ~Throws(outcomes[1])
                         THEN outcomes[2] ELSE outcomes[1],
           ![i].returned = <<Wrapper(requests[i].kind, outcomes, data)>>]
    /\ IF WrapperLogsError(requests[i].kind, outcomes) THEN consoleError ELSE UNCHANGED console
    /\ UNCHANGED <<alerts, localStorage, currentIp, currentPort, sockets, clients, callbacks, connects, received,
                   lastMessage, lastValid, gvars, mounted, effectPending, effectRan,
                   selectedInstance, vesselData, ws_client, wsteps, nvars, dvars, mvars>>

ApiNext ==
    \/ \E wrapper \in Wrappers : ApiCall(wrapper)
    \/ \E i \in 1..Len(requests), o1 \in Outcomes, o2 \in Outcomes, data \in ResponseData :
          ApiSettle(i, <<o1, o2>>, data)

ApiSpec == Init /\ [][ApiNext]_vars

(***************************************************************************)
(* Properties of the telemetry client and the dashboard.                   *)
(***************************************************************************)
Diagnostics == console.warn + console.error

\* C8: a message that is not valid JSON, is no array or holds an element
\* without a truthy vessel_name or pose never reaches the vessel-data
\* callback, leaves the displayed batch as it was, and is answered by exactly
\* one console.warn or console.error.
InvalidMessageDropped ==
    [][(received' = received + 1 /\ ~IsValidBatch(lastMessage')) =>
         /\ callbacks' = callbacks
         /\ vesselData' = vesselData
         /\ console'.warn + console'.error = Diagnostics + 1]_vars

\* A batch is displayed, then an array whose second element has no
\* vessel_name was handled.
InvalidMessageDroppedWitness ==
    /\ lastMessage = Array(<<V1, Item("", <<Pose2>>)>>)
    /\ received = 2 /\ callbacks = 1
    /\ vesselData = <<V2>>
    /\ Diagnostics = 1

\* C9: the displayed batch is the array of the most recent valid message,
\* the empty array included, and the initial empty batch before any valid
\* message; nothing of an earlier batch is kept.
DisplayedIsLastValid == vesselData = lastValid

\* Two valid batches were delivered and the second, which lacks a vessel of
\* the first, is displayed.
DisplayedIsLastValidWitness ==
    /\ callbacks = 2
    /\ lastMessage = Array(<<V2>>)
    /\ vesselData = <<V2>>
    /\ received = 2

SocketsOf(c) == {s \in 1..Len(sockets) : sockets[s].owner = c}

\* C10: a connect() on a client that already holds a connection creates no
\* socket and changes no state of the client, and a client never owns more
\* than one socket.
SecondConnectIsNoOp ==
    /\ [](\A c \in 1..Len(clients) : Cardinality(SocketsOf(c)) <= 1)
    /\ [][(connects' = connects + 1 /\ clients[1].ws # 0) =>
            UNCHANGED <<sockets, clients, localStorage, console, callbacks, vesselData>>]_vars

\* connect() was called again on a client whose socket is open.
SecondConnectWitness ==
    /\ connects >= 2
    /\ Len(sockets) = 1 /\ clients[1].ws = 1
    /\ sockets[1].readyState = "OPEN"

\* C11: a socket has sent nothing while it connects; the open event makes it
\* send one message, {instance: name} with the instance persisted in
\* localStorage when the event is handled; nothing is sent on it afterwards.
IdentitySentOnOpen ==
    /\ [](\A s \in 1..Len(sockets) :
            /\ sockets[s].readyState = "CONNECTING" => sockets[s].sent = <<>>
            /\ sockets[s].readyState = "OPEN" => Len(sockets[s].sent) = 1
            /\ Len(sockets[s].sent) <= 1)
    /\ [][\A s \in 1..Len(sockets) :
            /\ (sockets[s].readyState = "CONNECTING" /\ sockets'[s].readyState = "OPEN")
                  => sockets'[s].sent = <<[instance |-> localStorage["instance"]]>>
            /\ sockets[s].readyState # "CONNECTING"
                  => sockets'[s].sent = sockets[s].sent]_vars

\* The second client was connected while "sim2" was persisted, the selector
\* then saved "lotusim", and the socket opened after that.
IdentitySentOnOpenWitness ==
    /\ wsteps = 5 /\ Len(sockets) = 2
    /\ effectPending /\ selectedInstance = "lotusim"
    /\ sockets[2].readyState = "OPEN"
    /\ sockets[2].sent = <<[instance |-> "lotusim"]>>

\* C13: handling an error event or a close event, clean or not, creates no
\* socket, sends nothing on any socket, does not invoke the vessel-data
\* callback and leaves the client as it was; a socket is only ever created
\* inside a call of connect().
NoReconnectOnTransportEvent ==
    /\ [][transportEvents' # transportEvents =>
            /\ Len(sockets') = Len(sockets)
            /\ \A s \in 1..Len(sockets) : sockets'[s].sent = sockets[s].sent
            /\ UNCHANGED <<clients, callbacks, vesselData, connects>>]_vars
    /\ [][Len(sockets') # Len(sockets) => connects' = connects + 1]_vars

\* An error event and an unclean close were handled, and the client was left
\* with its one socket, closed.
NoReconnectWitness ==
    /\ transportEvents = 2 /\ console.error = 2
    /\ Len(sockets) = 1 /\ sockets[1].readyState = "CLOSED"
    /\ connects = 1

\* Client c holds a socket that is connecting or open.
Live(c) ==
    clients[c].ws # 0 /\ sockets[clients[c].ws].readyState \in {"CONNECTING", "OPEN"}

\* C12: every client but the one the dashboard holds was asked to disconnect
\* before its successor was constructed, so that at most one client was not
\* asked to and at most one connection is live; the ref is null or the
\* newest client; after the unmount every client was asked to disconnect, no
\* connection is live and the ref is null.
TeardownBeforeConnect ==
    /\ ws_client \in {0, Len(clients)}
    /\ \A c \in 1..Len(clients) : c # ws_client => c \in disconnected /\ ~Live(c)
    /\ Cardinality((1..Len(clients)) \ disconnected) <= 1
    /\ ~mounted => /\ ws_client = 0
                   /\ \A c \in 1..Len(clients) : c \in disconnected /\ ~Live(c)

\* The instance was changed, the effect ran twice and the dashboard was
\* unmounted: both clients were asked to disconnect.
TeardownBeforeConnectWitness ==
    /\ ~mounted /\ Len(clients) = 2
    /\ disconnected = {1, 2} /\ ws_client = 0
    /\ selectedInstance = "sim2"

\* How far a connection has come: a client without a socket is
\* disconnected, a socket connects, is open, then closes.
Stage(readyState) ==
    CASE readyState = "CONNECTING" -> 1
      [] readyState = "OPEN" -> 2
      [] readyState = "CLOSING" -> 3
      [] readyState = "CLOSED" -> 4

\* Client c holds a socket that is open.
IsOpen(c) == clients[c].ws # 0 /\ sockets[clients[c].ws].readyState = "OPEN"

\* C23: a connection never moves back (a client keeps the socket it has, a
\* socket never returns to an earlier readyState); a socket is created only
\* by a call of connect(); a message is sent on a socket only while it is
\* open, and a call of sendClientName() on a client whose socket is not open
\* sends nothing and logs one error; no batch reaches the callback of a
\* connection whose identity message was not sent; a disconnect() on a
\* client that never connected changes nothing.
LifecycleMovesForward ==
    /\ [][/\ \A c \in 1..Len(clients) : clients[c].ws # 0 => clients'[c].ws = clients[c].ws
          /\ \A s \in 1..Len(sockets) :
                Stage(sockets'[s].readyState) >= Stage(sockets[s].readyState)]_vars
    /\ [][/\ Len(sockets') # Len(sockets) =>
                /\ connects' = connects + 1
                /\ Len(sockets') = Len(sockets) + 1
                /\ sockets'[Len(sockets')].readyState = "CONNECTING"
          /\ \A s \in 1..Len(sockets) :
                (sockets[s].readyState # "CONNECTING" /\ sockets'[s].readyState = "CONNECTING")
                    => FALSE]_vars
    /\ [][\A s \in 1..Len(sockets) :
             sockets'[s].sent # sockets[s].sent => sockets'[s].readyState = "OPEN"]_vars
    /\ [][(nameCalls' # nameCalls /\ ~IsOpen(1)) =>
             /\ UNCHANGED <<sockets, clients, callbacks, vesselData>>
             /\ console' = [console EXCEPT !.error = @ + 1]]_vars
    /\ [][(nameCalls' # nameCalls /\ IsOpen(1)) =>
             /\ sockets'[clients[1].ws].sent
                   = Append(sockets[clients[1].ws].sent, [instance |-> getInstance])
             /\ UNCHANGED console]_vars
    /\ [][callbacks' # callbacks =>
             \E s \in 1..Len(sockets) :
                 sockets[s].readyState = "OPEN" /\ Len(sockets[s].sent) >= 1]_vars
    /\ [][(disconnected' # disconnected /\ clients[1].ws = 0) =>
             UNCHANGED <<sockets, clients, console, callbacks, vesselData, connects>>]_vars

\* sendClientName() and disconnect() were called on the client before it
\* connected; the connection then opened, sent the identity, forwarded a
\* batch and was closed.
LifecycleWitness ==
    /\ wsteps = 7 /\ connects = 1
    /\ nameCalls = 1 /\ console.error = 1
    /\ disconnected = {1} /\ transportEvents = 1
    /\ received = 1 /\ callbacks = 1
    /\ Len(sockets) = 1 /\ sockets[1].readyState = "CLOSED"
    /\ sockets[1].sent = <<[instance |-> getInstance]>>

\* C27: the instance named in the identity message of the connection the
\* dashboard holds is the instance the dashboard selects, to which its spawn
\* commands go.
IdentityIsSelectedInstance ==
    (mounted /\ ws_client # 0 /\ clients[ws_client].ws # 0) =>
        \A k \in 1..Len(sockets[clients[ws_client].ws].sent) :
            sockets[clients[ws_client].ws].sent[k].instance = selectedInstance

\* C29: once the effect has run for the selected instance, the displayed
\* batch is empty or was delivered by the socket of the current client, the
\* connection made for that instance; no batch of the connection of the
\* previously selected instance is displayed.
DisplayedFromSelectedConnection ==
    (mounted /\ effectRan /\ ~effectPending /\ vesselData # <<>>) =>
        /\ ws_client # 0
        /\ deliveredBy = clients[ws_client].ws

\* C30: the live telemetry connection of the dashboard goes to the host the
\* REST wrappers use, whatever addresses were saved and instances selected,
\* and always to port 5000.
TelemetryHostIsRestHost ==
    (mounted /\ ~effectPending /\ ws_client # 0 /\ clients[ws_client].ws # 0) =>
        LET ws == sockets[clients[ws_client].ws]
        IN ws.readyState \in {"CONNECTING", "OPEN"} =>
               ws.host = baseUrl.host /\ ws.port = 5000

(***************************************************************************)
(* Properties of the markers.                                              *)
(***************************************************************************)
\* C16: while the dashboard is mounted the map holds as many markers as the
\* displayed batch has entries, the marker of an entry at the entry's
\* (latitude, longitude) and rotated by the entry's heading; when the batch
\* is the single vessel v1 at (1.24, 103.71) heading 90 there is exactly one
\* marker, at (1.24, 103.71) rotated by 90 degrees.
MarkersFollowBatch ==
    /\ mounted =>
          /\ Len(markers) = Len(vesselData)
          /\ \A i \in 1..Len(vesselData) :
                /\ markers[i].position = <<vesselData[i].pose[1].latitude,
                                           vesselData[i].pose[1].longitude>>
                /\ markers[i].icon.rotate = vesselData[i].pose[1].heading
    /\ mounted /\ vesselData = <<V1>> =>
          /\ Len(markers) = 1
          /\ markers[1].position = <<1240, 103710>>
          /\ markers[1].icon.rotate = 90000

\* The identity of "lotusim" was sent, a first batch was superseded by the
\* batch of v1 alone, and the map holds the one marker of v1.
MarkersFollowBatchWitness ==
    /\ mounted /\ callbacks = 2
    /\ Len(sockets) = 1 /\ sockets[1].sent = <<[instance |-> "lotusim"]>>
    /\ lastMessage = Array(<<V1>>) /\ vesselData = <<V1>>
    /\ iconsMade >= 2
    /\ Len(markers) = 1
    /\ markers[1].position = <<1240, 103710>> /\ markers[1].icon.rotate = 90000

\* C17: at every zoom level the width getIconSize returns is 0.5 + zoom and
\* the height is 1.625 times the width, 0.5 wide at zoom 0 and 10.5 wide at
\* zoom 10; the icon of every marker has that size at the current zoom.
IconSizeFollowsZoom ==
    /\ \A z \in ZoomLevels \cup {currentZoom} :
          /\ getIconSize(z)[1] = 8 + 16 * z
          /\ getIconSize(z)[2] * 1000 = 1625 * getIconSize(z)[1]
    /\ getIconSize(0)[1] = 8
    /\ getIconSize(10)[1] = 168
    /\ \A i \in 1..Len(markers) :
          /\ markers[i].icon.iconSize = <<8 + 16 * currentZoom, 13 + 26 * currentZoom>>
          /\ markers[i].icon.width = 8 + 16 * currentZoom
          /\ markers[i].icon.height * 1000 = 1625 * markers[i].icon.width

\* The map was zoomed to level 10 with a vessel displayed: its icon is 10.5
\* wide and 17.0625 high.
IconSizeFollowsZoomWitness ==
    /\ mounted /\ currentZoom = 10
    /\ Len(markers) = 1
    /\ markers[1].icon.iconSize = <<168, 273>>

\* The markers that are new in the next render or whose (zoom level, heading)
\* differs from the one of the last render.
ChangedMarkers ==
    {i \in 1..Len(markers') : i > Len(markers) \/ markers'[i].deps # markers[i].deps}

\* C18: a step that leaves the (zoom level, heading) of a marker unchanged
\* leaves its icon the same object; icons are created only for the markers
\* that are new or whose pair changed, one each; and the size and rotation
\* of an icon are those of its pair.
IconMemoized ==
    /\ [][\A i \in 1..Len(markers') :
             i \notin ChangedMarkers => markers'[i].icon = markers[i].icon]_vars
    /\ [][iconsMade' = iconsMade + Cardinality(ChangedMarkers)]_vars
    /\ [](\A i \in 1..Len(markers) :
             /\ markers[i].icon.iconSize = getIconSize(markers[i].deps[1])
             /\ markers[i].icon.rotate = markers[i].deps[2])
    /\ [](\A i, j \in 1..Len(markers) :
             markers[i].deps = markers[j].deps =>
                 [markers[i].icon EXCEPT !.id = 0] = [markers[j].icon EXCEPT !.id = 0])

\* A second batch moved and renamed the vessel and left its heading: the
\* marker is at the new place with the icon of the first render.
IconMemoizedWitness ==
    /\ mounted /\ callbacks = 2 /\ currentZoom = 14
    /\ lastMessage = Array(<<V3>>) /\ vesselData = <<V3>>
    /\ iconsMade = 1
    /\ Len(markers) = 1
    /\ markers[1].position = <<1250, 103720>> /\ markers[1].icon.id = 1

(***************************************************************************)
(* Properties of the spawn command and of the REST submissions.            *)
(***************************************************************************)
\* The step is a submit of the dialog.
Submitting == ~submitted /\ submitted'

\* C14: a submit issues one POST to /instance/{selectedInstance}/vessel whose
\* body has cmd_type 0, the serialized document as sdf_string, the model and
\* the vessel name of the dialog, the latitude, longitude and elevation of
\* the position as geo_point and the heading of the position as heading.
SpawnCommandCarriesDialog ==
    [][Submitting =>
         /\ Len(requests') = Len(requests) + 1
         /\ LET r == requests'[Len(requests')]
            IN /\ r.method = "POST"
               /\ r.path = <<"instance", selectedInstance, "vessel">>
               /\ r.body.cmd_type = Num(0)
               /\ r.body.sdf_string = Str(generateLotusParamXML)
               /\ r.body.model_name = Str(model)
               /\ r.body.vessel_name = Str(vesselName)
               /\ r.body.geo_point.latitude = position.latitude
               /\ r.body.geo_point.longitude = position.longitude
               /\ r.body.geo_point.altitude = position.elevation
               /\ r.body.heading = position.heading]_vars

\* C15: when a request of a spawn, a creation or a deletion is rejected or
\* gets no response, an alert is shown.
FailureIsAlerted ==
    [][\A i \in 1..Len(requests) :
          (requests[i].status = "pending" /\ requests'[i].status \in {"rejected", "network"})
              => alerts' = alerts + 1]_vars

\* C24: a right-click records its lat/lng and opens the context menu at the
\* client position of the click less the left and top of the map container,
\* and nothing else changes the recorded lat/lng; the dialog opens only from
\* the open menu, which closes, with the latitude and longitude of the last
\* right-click, elevation 0 and heading 0; a menu that closes otherwise
\* (Cancel, click-away) leaves the dialog closed and everything else as it
\* was; the menu is never shown while the dialog is open.
ContextMenuSeedsDialog ==
    /\ [][(contextMenuPosition' # <<>> /\ contextMenuPosition' # contextMenuPosition) =>
             /\ \E latlng \in MenuLatLngs, point \in MenuPoints :
                   /\ clickedLatLng' = <<latlng>>
                   /\ contextMenuPosition' = <<[x |-> point.clientX - mapBounds.left,
                                                 y |-> point.clientY - mapBounds.top]>>
             /\ UNCHANGED <<isAddVesselMenuOpen, ivars, cvars, requests>>]_vars
    /\ [][clickedLatLng' # clickedLatLng => contextMenuPosition' # <<>>]_vars
    /\ [][(~isAddVesselMenuOpen /\ isAddVesselMenuOpen') =>
             /\ contextMenuPosition # <<>> /\ contextMenuPosition' = <<>>
             /\ clickedLatLng' = clickedLatLng
             /\ position' = [latitude |-> Num(clickedLatLng[1].lat),
                             longitude |-> Num(clickedLatLng[1].lng),
                             elevation |-> Num(0), heading |-> Num(0)]]_vars
    /\ [][(contextMenuPosition # <<>> /\ contextMenuPosition' = <<>>
             /\ ~isAddVesselMenuOpen') =>
             UNCHANGED <<isAddVesselMenuOpen, clickedLatLng, ivars, cvars, requests>>]_vars
    /\ [](isAddVesselMenuOpen => contextMenuPosition = <<>>)

\* A dialog opened at (1.24, 103.71) was submitted; after a right-click at
\* (1.25, 103.72) the next dialog starts from (1.25, 103.72, 0, 0).
ContextMenuSeedsDialogWitness ==
    /\ isAddVesselMenuOpen /\ contextMenuPosition = <<>>
    /\ Len(requests) = 1
    /\ requests[1].body.geo_point.latitude = Num(1240)
    /\ clickedLatLng = <<[lat |-> 1250, lng |-> 103720]>>
    /\ position = [latitude |-> Num(1250), longitude |-> Num(103720),
                   elevation |-> Num(0), heading |-> Num(0)]

\* C25: a submit appends one request, the spawn command whose sdf_string is
\* the serialization of the configuration of the dialog, and leaves the
\* dialog closed; no other step issues a request, so a dialog closed by
\* Cancel or dismissed issues none; a dialog that opens starts with no
\* model, no name, all flags off and all lists empty.
SubmitSpawnsOnce ==
    /\ [][Submitting =>
             /\ isAddVesselMenuOpen /\ ~isAddVesselMenuOpen'
             /\ lotus_param' = GenerateXML(Config)
             /\ Len(requests') = Len(requests) + 1
             /\ SubSeq(requests', 1, Len(requests)) = requests
             /\ requests'[Len(requests')].kind = "spawn"
             /\ requests'[Len(requests')].body.sdf_string = Str(GenerateXML(Config))]_vars
    /\ [][requests' # requests => Submitting]_vars
    /\ [][(isAddVesselMenuOpen /\ ~isAddVesselMenuOpen' /\ ~submitted') =>
             requests' = requests]_vars
    /\ [][(~isAddVesselMenuOpen /\ isAddVesselMenuOpen') =>
             /\ model' = <<>> /\ vesselName' = <<>>
             /\ \A name \in DOMAIN plugins' : ~plugins'[name]
             /\ \A mode \in DOMAIN physicsModes' :
                   /\ ~physicsModes'[mode]
                   /\ physicsConfig'[mode].thrusters = <<>>
             /\ rendererType' = <<>> /\ ~publishRender' /\ initState' = <<>>
             /\ ~waypointFollower'.enabled /\ waypointFollower'.mode = ""
             /\ waypointFollower'.waypoints = <<>>]_vars

\* After four edits one dialog was submitted with the rendering engine
\* enabled, and the dialog that is open now has its defaults: one spawn
\* command was issued.
SubmitSpawnsOnceWitness ==
    /\ isAddVesselMenuOpen /\ ~submitted
    /\ edits = 4 /\ Len(requests) = 1
    /\ requests[1].body.sdf_string = Str(lotus_param)
    /\ lotus_param # Open("lotus_param") \o Close("lotus_param")
    /\ HooksAre(InitialHooks(clickedLatLng))

\* C26: the promise of a wrapper whose call has ended is fulfilled, never
\* rejected: after a rejected request or a network error with [] for the
\* list wrappers and with false for the others, and with false for
\* spawnVesselOnInstance after any status but 200.
WrappersNeverThrow ==
    \A i \in 1..Len(requests) :
        requests[i].status # "pending" =>
            /\ Len(requests[i].returned) = 1
            /\ requests[i].returned[1].state = "fulfilled"
            /\ Throws(requests[i].status) =>
                  requests[i].returned[1].value
                    = IF requests[i].kind \in ListWrappers THEN List(<<>>) ELSE Bool(FALSE)
            /\ (requests[i].kind = "spawnVesselOnInstance" /\ requests[i].status # "200") =>
                  requests[i].returned[1].value = Bool(FALSE)

\* deleteModel ended with a network error and returned false, and
\* listModels with a rejected request and returned [].
WrappersNeverThrowWitness ==
    /\ Len(requests) = 2
    /\ requests[1].kind = "deleteModel" /\ requests[1].status = "network"
    /\ requests[1].returned = <<Fulfilled(Bool(FALSE))>>
    /\ requests[2].kind = "listModels" /\ requests[2].status = "rejected"
    /\ requests[2].returned = <<Fulfilled(List(<<>>))>>
    /\ console.error = 2

\* C19: at submit every field of the position holds a number.
PositionHoldsNumbers ==
    submitted =>
        \A field \in {"latitude", "longitude", "elevation", "heading"} :
            position[field].type \in {"number", "infinity"}

(***************************************************************************)
(* Reading a serialized document.                                          *)
(***************************************************************************)
\* sub occurs in s at position i.
OccursAt(s, sub, i) ==
    /\ i >= 1 /\ i + Len(sub) - 1 <= Len(s)
    /\ \A k \in 1..Len(sub) : s[i + k - 1] = sub[k]

\* The least position >= from at which sub occurs in s, 0 when there is none.
IndexOf(s, sub, from) ==
    LET hits == {i \in from..Len(s) : OccursAt(s, sub, i)}
    IN IF hits = {} THEN 0 ELSE CHOOSE i \in hits : \A j \in hits : i <= j

Contains(s, sub) == IndexOf(s, sub, 1) # 0

Count(s, sub) == Cardinality({i \in 1..Len(s) : OccursAt(s, sub, i)})

\* The text between the first occurrence of open and the next occurrence of
\* close; <<"?">> when s holds no such pair.
Between(s, open, close) ==
    LET a == IndexOf(s, open, 1)
        b == IF a = 0 THEN 0 ELSE IndexOf(s, close, a + Len(open))
    IN IF b = 0 THEN <<"?">> ELSE SubSeq(s, a + Len(open), b - 1)

Element(s, name) == Between(s, Open(name), Close(name))

SpecialChars == {"&", "<", ">", "\"", "'"}

\* The reserved characters of a value, in order.
SpecialsOf(value) == SelectSeq(value, LAMBDA ch : ch \in SpecialChars)

\* The character the entity at position i of text stands for, "?" when the
\* '&' at i starts none of the five entities.
EntityAt(text, i) ==
    IF OccursAt(text, AMP, i) THEN "&"
    ELSE IF OccursAt(text, LT, i) THEN "<"
    ELSE IF OccursAt(text, GT, i) THEN ">"
    ELSE IF OccursAt(text, QUOT, i) THEN "\""
    ELSE IF OccursAt(text, APOS, i) THEN "'"
    ELSE "?"

\* The characters the entities of text stand for, in order.
EntitiesOf(text) ==
    LET at == [i \in 1..Len(text) |-> IF text[i] = "&" THEN EntityAt(text, i) ELSE Gone]
    IN Compact(at)

\* text carries value with every reserved character as its entity: no bare
\* reserved character other than the '&' of an entity, and the entities spell
\* the reserved characters of value, once each and in order.
EscapedAs(text, value) ==
    /\ \A i \in 1..Len(text) : text[i] \notin {"<", ">", "\"", "'"}
    /\ EntitiesOf(text) = SpecialsOf(value)

EnabledModes == {m \in {"aerial", "surface", "underwater"} : physicsModes[m]}

EmptyDocument == Open("lotus_param") \o Close("lotus_param")

ThrusterOpen(k) == <<"<", "thrusters">> \o NatText(k) \o <<">">>
ThrusterClose(k) == <<"<", "/", "thrusters">> \o NatText(k) \o <<">">>

\* The tag that starts at the '<' at position i of s: its symbols up to '>'.
TagAt(s, i) == SubSeq(s, i + 1, IndexOf(s, <<">">>, i) - 1)

\* The tags of s, opening and closing, in order.
Tags(s) ==
    LET at == SelectSeq([i \in 1..Len(s) |-> i], LAMBDA i : s[i] = "<")
    IN [k \in 1..Len(at) |-> TagAt(s, at[k])]

\* The tags of the sub-element of a mode with n thrusters.
ModeTags(mode, n) ==
    <<<<mode>>, <<"ConnectionType">>, <<"/", "ConnectionType">>, <<"uri">>, <<"/", "uri">>,
      <<"thrusters">>>>
    \o Concat([k \in 1..n |-> <<<<"thrusters">> \o NatText(k),
                                 <<"/", "thrusters">> \o NatText(k)>>])
    \o <<<<"/", "thrusters">>, <<"/", mode>>>>

\* C20: in a document submitted with the physics engine enabled, the tags
\* inside <physics_engine_interface> are those of the enabled modes in the
\* order aerial, surface, underwater, each with ConnectionType, uri and
\* thrusters in that order, followed by <init_state> as the last child,
\* whatever the order of the clicks on the mode checkboxes was.
ModesInFixedOrder ==
    submitted /\ plugins["physics engine"] =>
        Tags(Element(lotus_param, "physics_engine_interface"))
          = Concat([i \in 1..3 |->
                LET mode == <<"aerial", "surface", "underwater">>[i]
                IN IF physicsModes[mode]
                   THEN ModeTags(mode, Len(physicsConfig[mode].thrusters))
                   ELSE <<>>])
            \o <<<<"init_state">>, <<"/", "init_state">>>>

\* Underwater was enabled before aerial, and the submitted document holds
\* <aerial> before <underwater>.
ModesInFixedOrderWitness ==
    /\ submitted /\ plugins["physics engine"]
    /\ toggles = <<"underwater", "aerial">>
    /\ physicsModes["aerial"] /\ physicsModes["underwater"]
    /\ IndexOf(lotus_param, Open("aerial"), 1) > 0
    /\ IndexOf(lotus_param, Open("aerial"), 1) < IndexOf(lotus_param, Open("underwater"), 1)

\* C21: initState is empty or the capitalized name of a mode whose flag is
\* enabled, and the <init_state> of a submitted document names no mode that
\* is disabled at submit.
InitStateNamesEnabledMode ==
    /\ initState = <<>> \/ \E mode \in EnabledModes : initState = Capitalized(mode)
    /\ submitted /\ plugins["physics engine"] =>
          \A mode \in {"aerial", "surface", "underwater"} \ EnabledModes :
              Element(lotus_param, "init_state") # Capitalized(mode)

\* Values of the follower sub-structures that no edit of the dialog yields.
OtherWaypoints == <<[lat |-> 1000, lng |-> 1000]>>
OtherLine == [direction |-> 1000, length |-> 1000]
OtherCircle == [radius |-> 1000]

\* The configuration c with the sub-structures its follower mode does not
\* select replaced by the values above.
WithOthers(c) ==
    LET wf == c.waypointFollower
    IN [c EXCEPT !.waypointFollower =
           [wf EXCEPT !.waypoints = IF wf.mode = "waypoints" THEN @ ELSE OtherWaypoints,
                      !.line = IF wf.mode = "line" THEN @ ELSE OtherLine,
                      !.circle = IF wf.mode = "circle" THEN @ ELSE OtherCircle]]

\* C22: a configuration that differs from the one of the dialog only in the
\* follower sub-structures the mode does not select, and differs in each of
\* them, serializes to the same text.
UnselectedNotSerialized ==
    /\ WithOthers(Config) # Config
    /\ GenerateXML(WithOthers(Config)) = GenerateXML(Config)

\* A waypoint was added in the mode waypoints and the mode was changed to
\* line: the submitted document holds the line and no waypoint.
UnselectedNotSerializedWitness ==
    /\ submitted /\ waypointFollower.enabled
    /\ waypointFollower.mode = "line" /\ Len(waypointFollower.waypoints) = 1
    /\ Contains(lotus_param, Open("line"))
    /\ ~Contains(lotus_param, Open("waypoint"))
    /\ lotus_param # GenerateXML([Config EXCEPT !.waypointFollower.mode = "waypoints"])

\* C28: in a submitted document the text of the renderer type, of the URI
\* of an enabled mode and of each of its thrusters is the escaped value, the
\* whitespace of the value included.
ValuesKeepWhitespace ==
    submitted =>
      /\ plugins["rendering engine"] =>
            Element(lotus_param, "renderer_type_name") = escapeXml(rendererType)
      /\ plugins["physics engine"] =>
            \A m \in EnabledModes :
                LET part == Element(lotus_param, m)
                    config == physicsConfig[m]
                IN /\ Element(part, "uri") = escapeXml(config.uri)
                   /\ \A k \in 1..Len(config.thrusters) :
                         Between(part, ThrusterOpen(k), ThrusterClose(k))
                           = escapeXml(config.thrusters[k])

\* C1: with the rendering-engine, physics-engine and waypoint-follower flags
\* all false, the serializer returns exactly <lotus_param></lotus_param>,
\* whatever the fields of the disabled blocks hold.
AllDisabledIsEmptyDocument ==
    (/\ submitted
     /\ ~plugins["rendering engine"]
     /\ ~plugins["physics engine"]
     /\ ~waypointFollower.enabled) => lotus_param = EmptyDocument

\* A submit with everything disabled after a renderer type was entered.
AllDisabledWitness ==
    /\ submitted
    /\ ~plugins["rendering engine"] /\ ~plugins["physics engine"]
    /\ ~waypointFollower.enabled
    /\ rendererType # <<>>
    /\ lotus_param = EmptyDocument

\* C2: in every text value the serializer embeds (renderer type, connection
\* type, URI, thruster names, initial state) the characters & < > " ' appear
\* only as their entities, each escaped once; the boolean and numeric fields
\* appear as their plain JavaScript text.
TextEscapedNumbersPlain ==
    submitted =>
      /\ \A i \in 1..Len(lotus_param) : lotus_param[i] \notin {"\"", "'"}
      /\ plugins["rendering engine"] =>
           /\ EscapedAs(Element(lotus_param, "renderer_type_name"), rendererType)
           /\ Element(lotus_param, "publish_render") = BoolText(publishRender)
      /\ plugins["physics engine"] =>
           /\ EscapedAs(Element(lotus_param, "init_state"), initState)
           /\ \A m \in EnabledModes :
                LET part == Element(lotus_param, m)
                    config == physicsConfig[m]
                IN /\ EscapedAs(Element(part, "ConnectionType"), config.connectionType)
                   /\ EscapedAs(Element(part, "uri"), config.uri)
                   /\ \A k \in 1..Len(config.thrusters) :
                        EscapedAs(Between(part, ThrusterOpen(k), ThrusterClose(k)),
                                  config.thrusters[k])
      /\ Contains(lotus_param, Open("follower")) =>
           /\ Element(lotus_param, "loop") = BoolText(waypointFollower.loop)
           /\ Element(lotus_param, "linear_acceleration_limit")
                = NumText(waypointFollower.linearAccLimit)
           /\ Element(lotus_param, "angular_acceleration_limit")
                = NumText(waypointFollower.angularAccLimit)
           /\ Element(lotus_param, "angular_velocity_limit")
                = NumText(waypointFollower.angularVelLimit)
      /\ Contains(lotus_param, Open("line")) =>
           /\ Element(lotus_param, "direction") = NumText(waypointFollower.line.direction)
           /\ Element(lotus_param, "length") = NumText(waypointFollower.line.length)
      /\ Contains(lotus_param, Open("circle")) =>
           Element(lotus_param, "radius") = NumText(waypointFollower.circle.radius)
      /\ Contains(lotus_param, Open("waypoints")) =>
           Element(lotus_param, "waypoint")
             = NumText(waypointFollower.waypoints[1].lat) \o <<SPC>>
               \o NumText(waypointFollower.waypoints[1].lng)

\* A submit whose URI holds the text "&lt;", emitted as "&amp;lt;".
TextEscapedWitness ==
    /\ submitted
    /\ plugins["physics engine"]
    /\ \E m \in EnabledModes :
         /\ physicsConfig[m].uri = <<"&", "l", "t", ";">>
         /\ Element(Element(lotus_param, m), "uri") = AMP \o <<"l", "t", ";">>

\* C3: for every enabled physics mode, the <thrusters> element of the mode
\* holds exactly the children <thrusters1>..<thrustersn>, numbered from 1, in
\* the order of the thruster list, the k-th holding the k-th name (in its
\* escaped form).
ThrustersInOrder ==
    (submitted /\ plugins["physics engine"]) =>
      \A m \in EnabledModes :
        LET thrusters == physicsConfig[m].thrusters
        IN Element(Element(lotus_param, m), "thrusters")
             = Concat([k \in 1..Len(thrusters) |->
                   ThrusterOpen(k) \o escapeXml(thrusters[k]) \o ThrusterClose(k)])

\* A submit with three thrusters, two of them of the same name, in one mode.
ThrustersInOrderWitness ==
    /\ submitted /\ plugins["physics engine"]
    /\ \E m \in EnabledModes :
         /\ physicsConfig[m].thrusters = <<<<"A">>, <<"<", "B">>, <<"A">>>>
         /\ Contains(lotus_param,
                ThrusterOpen(2) \o LT \o <<"B">> \o ThrusterClose(2) \o ThrusterOpen(3))

\* C4: with the follower enabled, mode waypoints and no waypoint, no
\* <follower> is emitted and the output equals that of the same configuration
\* with waypointFollower.enabled = false.
EmptyWaypointsAsDisabled ==
    (/\ submitted
     /\ waypointFollower.enabled
     /\ waypointFollower.mode = "waypoints"
     /\ waypointFollower.waypoints = <<>>) =>
       /\ ~Contains(lotus_param, Open("follower"))
       /\ lotus_param = GenerateXML([Config EXCEPT !.waypointFollower.enabled = FALSE])

RenderTags == {"render_interface", "publish_render", "renderer_type_name"}
PhysicsTags == {"physics_engine_interface", "aerial", "surface", "underwater",
                "ConnectionType", "uri", "thrusters", "init_state"}
FollowerTags == {"waypoint_follower", "follower", "loop", "linear_acceleration_limit",
                 "angular_acceleration_limit", "angular_velocity_limit", "waypoints",
                 "waypoint", "line", "direction", "length", "circle", "radius"}

NoSymbolOf(s, tags) == \A i \in 1..Len(s) : s[i] \notin tags

\* C6: after any sequence of edits and toggles the output holds a
\* <render_interface> section iff the rendering-engine flag is set, a
\* <physics_engine_interface> section iff the physics-engine flag is set and
\* a <waypoint_follower> section iff the follower is enabled; a disabled
\* block leaves no element of its own in the output.
SectionsFollowFlags ==
    submitted =>
      /\ Contains(lotus_param, Open("render_interface")) <=> plugins["rendering engine"]
      /\ Contains(lotus_param, Open("physics_engine_interface")) <=> plugins["physics engine"]
      /\ Contains(lotus_param, Open("waypoint_follower")) <=> waypointFollower.enabled
      /\ ~plugins["rendering engine"] => NoSymbolOf(lotus_param, RenderTags)
      /\ ~plugins["physics engine"] => NoSymbolOf(lotus_param, PhysicsTags)
      /\ ~waypointFollower.enabled => NoSymbolOf(lotus_param, FollowerTags)

\* A submit after the follower block was filled in and disabled again, with
\* another block enabled.
SectionsFollowFlagsWitness ==
    /\ submitted
    /\ ~waypointFollower.enabled /\ waypointFollower.mode = "line"
    /\ plugins["rendering engine"]
    /\ Contains(lotus_param, Open("render_interface"))
    /\ ~Contains(lotus_param, Open("waypoint_follower"))

FollowerCount == Count(lotus_param, Open("follower"))

\* The follower the selected mode yields.
ModeYieldsFollower ==
    \/ waypointFollower.mode \in {"line", "circle"}
    \/ waypointFollower.mode = "waypoints" /\ waypointFollower.waypoints # <<>>

\* C7 as stated: with the follower enabled, one invocation emits exactly one
\* <follower> element.
ExactlyOneFollowerWhenEnabled ==
    (submitted /\ waypointFollower.enabled) => FollowerCount = 1

\* C7, amended: one invocation never emits more than one <follower>; it
\* emits one exactly when the follower is enabled and the mode is line, or
\* circle, or waypoints with at least one waypoint.
AtMostOneFollower ==
    submitted =>
      /\ FollowerCount <= 1
      /\ FollowerCount = 1 <=> (waypointFollower.enabled /\ ModeYieldsFollower)

\* A submit in line mode after a waypoint was added in waypoints mode.
AtMostOneFollowerWitness ==
    /\ submitted /\ waypointFollower.enabled
    /\ waypointFollower.mode = "line"
    /\ waypointFollower.waypoints # <<>>
    /\ FollowerCount = 1

(***************************************************************************)
(* The normalization pass as a function of its own: it is applied to a     *)
(* text, then to its own result.                                           *)
(***************************************************************************)
NormAlphabet == {"a", SPC, NL, FF, ">", "<"}

NormInit ==
    /\ str \in TextsUpTo(NormAlphabet, MaxStrLen)
    /\ norm = <<>>
    /\ norm2 = <<>>
    /\ npc = "in"
    /\ MapDefaults /\ RestDefaults
    /\ DialogDefaults /\ BrowserDefaults /\ NoDashboard
    /\ localStorage = EmptyStorage
    /\ ModuleLoaded
    /\ clients = <<>>

NormalizeOnce ==
    /\ npc = "in"
    /\ norm' = Normalize(str)
    /\ npc' = "once"
    /\ UNCHANGED <<str, norm2, dvars, wvars, mvars, rvars>>

NormalizeAgain ==
    /\ npc = "once"
    /\ norm2' = Normalize(norm)
    /\ npc' = "twice"
    /\ UNCHANGED <<str, norm, dvars, wvars, mvars, rvars>>

NormNext == NormalizeOnce \/ NormalizeAgain

NormSpec == NormInit /\ [][NormNext]_vars

\* C5: the whitespace normalization is idempotent: applied to a text it has
\* produced, it returns that text unchanged.
NormalizeIdempotent == npc = "twice" => norm2 = norm

\* The pass removed line breaks, collapsed a run and closed a tag gap, and
\* was applied a second time.
NormalizeIdempotentWitness ==
    /\ npc = "twice"
    /\ str = <<">", SPC, NL, "<", SPC>>
    /\ norm = <<">", "<">>

====
